---- MODULE Spec2Model ----
(***************************************************************************)
(* Memory lifecycle of the Hikari companion: the IndexedDB fact store      *)
(* (services/memoryManager.ts), the lifecycle manager built on it          *)
(* (services/memoryProcessor.ts) and the long-term summarizer              *)
(* (services/topicGenerator.ts).                                            *)
(*                                                                         *)
(* A text is the sequence of its UTF-16 code units, so that length and     *)
(* String.prototype.includes are computed as JavaScript computes them.     *)
(* An importance is kept in tenths (0.6 is 6).  A falsy oracle field       *)
(* (missing, null, "" or 0) is the empty sequence, the empty string or 0.  *)
(* Every asynchronous call is a frame of a process: one step per await.    *)
(* localStorage maps a key to the parsed value stored under it; stickers   *)
(* is the sticker cache (services/stickerCache.ts); detached lists the     *)
(* promises nobody awaits.  db holds each module's database handle (0 is   *)
(* null) and opened counts the calls of indexedDB.open for it.  relations   *)
(* is the relation store of the fact database and sessions the chat        *)
(* session store (services/sessionManager.ts), both keyed by id.           *)
(***************************************************************************)
EXTENDS Integers, Sequences, FiniteSets, TLC

VARIABLES facts, clock, frame, localStorage, stickers, detached, db, opened,
          relations, sessions

vars ==
  <<facts, clock, frame, localStorage, stickers, detached, db, opened, relations, sessions>>

Procs == {"p1", "p2"}

\* the two modules that keep a database handle in their variable db
Modules == {"memoryManager", "stickerCache"}

(* ------------------------------ bounds -------------------------------- *)

\* facts created in one run (Date.now() ticks once per created fact)
MaxClock == 2
\* size of the stores a run may start from
MaxShort == 9
MaxLong == 9
\* length of an oracle reply
MaxKeep == 2
MaxSummaries == 2
\* promises dispatched without an await in one run
MaxDetached == 2
\* turn counts handed to shouldRecordMemory
MaxRounds == 5
\* calls of indexedDB.open for one database
MaxOpens == 3
\* code units of a text handed to computeTextEmbedding
MaxLen == 3
\* candidates in one reply of the extraction oracle, and facts extraction creates
MaxExtract == 6

(* ------------------------- program constants -------------------------- *)

DupLengthSlack == 3
PromoteFloor == 5
SummarizeFloor == 8
SummaryImportance == 8
RecordDefaultImportance == 6
ExtractDefaultImportance == 7
\* "at most 5" in the extraction prompt
ExtractCap == 5

(* ------------------------------- texts -------------------------------- *)

HateCilantro == <<35752, 21388, 39321, 33756>>
Cilantro == <<39321, 33756>>
DislikesLeekAndCilantro ==
  <<19981, 21916, 27426, 21507, 38893, 33756, 21644, 39321, 33756, 36825, 31867, 34092, 33756>>
Vegetable == <<33756>>
NotHateCilantro == <<19981, 35752, 21388, 39321, 33756>>
Leek == <<38893, 33756>>

Texts == {HateCilantro, Cilantro, DislikesLeekAndCilantro, Vegetable, NotHateCilantro, Leek}

Abs(x) == IF x < 0 THEN 0 - x ELSE x

\* String.prototype.includes: t occurs in s at some offset k
Includes(s, t) == \E k \in 0..(Len(s) - Len(t)) : SubSeq(s, k + 1, k + Len(t)) = t

(* ---------------------------- the fact store --------------------------- *)

Newer(x, y) ==
  \/ x.timestamp > y.timestamp
  \/ x.timestamp = y.timestamp /\ x.id < y.id

RECURSIVE SortNewestFirst(_)
SortNewestFirst(S) ==
  IF S = {} THEN <<>>
  ELSE LET m == CHOOSE x \in S : \A y \in S \ {x} : Newer(x, y)
       IN <<m>> \o SortNewestFirst(S \ {m})

getAllMemoryFacts(store) == SortNewestFirst({store[k] : k \in DOMAIN store})

\* the short-term read in key order (oldest first), the sort left out
getShortTermMemories_KeyOrder(store) ==
  LET s == SortNewestFirst({store[k] : k \in {j \in DOMAIN store : store[j].type = "short_term"}})
  IN [n \in 1..Len(s) |-> s[Len(s) + 1 - n]]

getShortTermMemories(store) ==
  SortNewestFirst({store[k] : k \in {j \in DOMAIN store : store[j].type = "short_term"}})

\* the long-term read served from the wrong key of the type index
getLongTermMemories_ShortTermKey(store) ==
  SortNewestFirst({store[k] : k \in {j \in DOMAIN store : store[j].type = "short_term"}})

getLongTermMemories(store) ==
  SortNewestFirst({store[k] : k \in {j \in DOMAIN store : store[j].type = "long_term"}})

\* an add that keeps the text unique in the store (a check-and-insert in one transaction)
addMemoryFact_UniqueText(store, fact, now) ==
  IF \E k \in DOMAIN store : store[k].fact = fact.fact
  THEN store
  ELSE store @@ (now :> [id |-> now, fact |-> fact.fact, category |-> fact.category,
                         type |-> fact.type, importance |-> fact.importance,
                         source |-> fact.source, timestamp |-> now])

\* {...fact, id, timestamp}; the id embeds Date.now()
NewFact(fact, now) ==
  [id |-> now, fact |-> fact.fact, category |-> fact.category, type |-> fact.type,
   importance |-> fact.importance, source |-> fact.source, timestamp |-> now]

addMemoryFact(store, fact, now) == store @@ (now :> NewFact(fact, now))

promoteToLongTerm(store, factId) ==
  IF factId \in DOMAIN store /\ store[factId].type = "short_term"
  THEN [store EXCEPT ![factId].type = "long_term"]
  ELSE store

\* {...fact, ...updates}, written back under the record's key
Merge(fact, updates) ==
  [f \in DOMAIN fact |-> IF f \in DOMAIN updates THEN updates[f] ELSE fact[f]]

\* the update writing its record whether or not the get found one
updateMemoryFact_Upsert(store, factId, updates) ==
  IF factId \in DOMAIN store
  THEN [store EXCEPT ![factId] = Merge(store[factId], updates)]
  ELSE store @@ (factId :> updates)

updateMemoryFact(store, factId, updates) ==
  IF factId \in DOMAIN store
  THEN [store EXCEPT ![factId] = Merge(store[factId], updates)]
  ELSE store

deleteMemoryFact(store, factId) == [k \in DOMAIN store \ {factId} |-> store[k]]

\* {...relation, id, timestamp}; the id embeds Date.now()
addRelation(store, relation, now) ==
  store @@ (now :> [id |-> now, source |-> relation.source, predicate |-> relation.predicate,
                    target |-> relation.target, timestamp |-> now])

Likes == [source |-> "user", predicate |-> "likes", target |-> "leek"]

(* ------------------------------ frames -------------------------------- *)

\* null where a sticker is expected, and the arguments of a call that has none
NoSticker ==
  [id |-> 0, prompt |-> <<>>, type |-> "", detail |-> <<>>, imageData |-> "",
   embedding |-> [counts |-> <<>>, magnitude2 |-> 0], createdAt |-> 0, usageCount |-> 0]

\* no message, and null where a session is expected
NoMessage == [id |-> 0, role |-> "", content |-> <<>>]

NoSession ==
  [id |-> 0, title |-> <<>>, messages |-> <<>>, createdAt |-> 0, updatedAt |-> 0,
   lastVisitTime |-> 0, personality |-> ""]

NoArgs == [prompt |-> <<>>, type |-> "", detail |-> <<>>, imageData |-> "", threshold |-> 0]

NoResult == [fact |-> <<>>, category |-> "", importance |-> 0]

IdleFrame ==
  [op |-> "idle", pc |-> "idle", result |-> NoResult, isDuplicate |-> FALSE,
   shortTermMemories |-> <<>>, longTermMemories |-> <<>>, keepIndices |-> {},
   i |-> 0, promoted |-> 0, removed |-> 0, reply |-> "none", summaries |-> <<>>,
   summarized |-> 0, error |-> "none", summarizeError |-> "none", entry |-> <<>>,
   oldData |-> <<>>, oldRelations |-> <<>>, args |-> NoArgs, bestMatch |-> NoSticker, sticker |-> NoSticker,
   imageData |-> "", factId |-> 0, updates |-> <<>>, conversationRounds |-> 0,
   random |-> 0, should |-> FALSE, messages |-> <<>>, conversationPairs |-> <<>>,
   memories |-> <<>>, addedCount |-> 0, count |-> 0, text |-> <<>>, stickers |-> <<>>,
   module |-> "", request |-> 0, database |-> 0, list |-> <<>>,
   sessionId |-> 0, session |-> NoSession, newTitle |-> <<>>, message |-> NoMessage,
   personality |-> "",
   embedding |-> [counts |-> <<>>, magnitude2 |-> 0]]

AllIdle == \A p \in Procs : frame[p].pc = "idle"

Call(p, name, first) ==
  /\ UNCHANGED <<localStorage, stickers, detached, db, opened, relations, sessions>>
  /\ frame[p].pc = "idle"
  /\ frame' = [frame EXCEPT ![p] = [IdleFrame EXCEPT !.op = name, !.pc = first, !.entry = facts]]
  /\ UNCHANGED <<facts, clock>>

\* the promise has settled and the caller has read it: the frame is dropped
Settle(p) ==
  /\ UNCHANGED <<localStorage, stickers, detached, db, opened, relations, sessions>>
  /\ frame[p].pc \in {"returned", "rejected"}
  /\ frame' = [frame EXCEPT ![p] = IdleFrame]
  /\ UNCHANGED <<facts, clock>>

(* ------------------ the store's operations, as called ------------------ *)

UserFacts ==
  {[fact |-> t, category |-> "userinfo", type |-> ty, importance |-> 5, source |-> "system"] :
     t \in {HateCilantro, Leek}, ty \in {"short_term", "long_term"}}

Updates ==
  {[fact |-> NotHateCilantro], [type |-> "short_term"], [type |-> "long_term"],
   [importance |-> 9]}

AddMemoryFact(fact) ==
  /\ UNCHANGED <<localStorage, stickers, detached, db, opened, relations, sessions>>
  /\ clock < MaxClock
  /\ facts' = addMemoryFact(facts, fact, clock + 1)
  /\ clock' = clock + 1
  /\ UNCHANGED frame

PromoteToLongTerm(factId) ==
  /\ UNCHANGED <<localStorage, stickers, detached, db, opened, relations, sessions>>
  /\ facts' = promoteToLongTerm(facts, factId)
  /\ UNCHANGED <<clock, frame>>

UpdateMemoryFact(factId, updates) ==
  /\ UNCHANGED <<localStorage, stickers, detached, db, opened, relations, sessions>>
  /\ facts' = updateMemoryFact(facts, factId, updates)
  /\ UNCHANGED <<clock, frame>>

DeleteMemoryFact(factId) ==
  /\ UNCHANGED <<localStorage, stickers, detached, db, opened, relations, sessions>>
  /\ facts' = deleteMemoryFact(facts, factId)
  /\ UNCHANGED <<clock, frame>>

\* the ids a caller may name: every stored one, and one that is not stored
Ids == DOMAIN facts \cup {clock + 1}

\* a store left by earlier runs: long long-term facts, then short newer short-term ones,
\* created before this run's clock started
MemoText(n) == <<109, 48 + (n \div 10), 48 + (n % 10)>>

StoredBefore(short, long) ==
  [k \in (1 - (short + long))..0 |->
     [id |-> k, fact |-> MemoText(0 - k), category |-> "userinfo",
      type |-> IF k > 0 - short THEN "short_term" ELSE "long_term",
      importance |-> 5, source |-> "conversation", timestamp |-> k]]

InitEmpty ==
  /\ facts = <<>>
  /\ clock = 0
  /\ frame = [p \in Procs |-> IdleFrame]
  /\ localStorage = <<>>
  /\ stickers = <<>>
  /\ detached = <<>>
  /\ db = [m \in Modules |-> 0]
  /\ opened = [m \in Modules |-> 0]
  /\ relations = <<>>
  /\ sessions = <<>>

NextStore ==
  \/ \E fact \in UserFacts : AddMemoryFact(fact)
  \/ \E factId \in Ids : PromoteToLongTerm(factId)
  \/ \E factId \in Ids, updates \in Updates : UpdateMemoryFact(factId, updates)
  \/ \E factId \in Ids : DeleteMemoryFact(factId)

SpecStore == InitEmpty /\ [][NextStore]_vars

(* ---------------------- recordConversationMemory ----------------------- *)

\* the scan with the length test one unit tighter
isDuplicateMemory_SlackTwo(shortTerm, longTerm, fact) ==
  LET allMemories == shortTerm \o longTerm
  IN \E n \in 1..Len(allMemories) :
       LET m == allMemories[n]
       IN IF m.fact = fact THEN TRUE
          ELSE IF Includes(m.fact, fact) \/ Includes(fact, m.fact)
               THEN Abs(Len(m.fact) - Len(fact)) <= DupLengthSlack - 1
               ELSE FALSE

\* the scan with the length test left out
isDuplicateMemory_AnyContainment(shortTerm, longTerm, fact) ==
  LET allMemories == shortTerm \o longTerm
  IN \E n \in 1..Len(allMemories) :
       LET m == allMemories[n]
       IN m.fact = fact \/ Includes(m.fact, fact) \/ Includes(fact, m.fact)

\* allMemories.some(...) over [...shortTermMemories, ...longTermMemories]
isDuplicateMemory(shortTerm, longTerm, fact) ==
  LET allMemories == shortTerm \o longTerm
  IN \E n \in 1..Len(allMemories) :
       LET m == allMemories[n]
       IN IF m.fact = fact THEN TRUE
          ELSE IF Includes(m.fact, fact) \/ Includes(fact, m.fact)
               THEN Abs(Len(m.fact) - Len(fact)) <= DupLengthSlack
               ELSE FALSE

\* what JSON.parse(response.text) can be when it is an object; the importance is
\* whatever number the reply holds (1.5 is 15)
OracleResults ==
  {[fact |-> t, category |-> "userinfo", importance |-> 9] : t \in Texts}
    \cup {NoResult, [fact |-> HateCilantro, category |-> "", importance |-> 0],
          [fact |-> Leek, category |-> "userinfo", importance |-> 15]}

\* the fact handed to addMemoryFact for an accepted candidate
RecordedFact(result) ==
  [fact |-> result.fact,
   category |-> IF result.category = "" THEN "shared_event" ELSE result.category,
   type |-> "short_term",
   importance |-> IF result.importance = 0 THEN RecordDefaultImportance ELSE result.importance,
   source |-> "conversation"]

RecordCall(p) == Call(p, "recordConversationMemory", "generateContent")

\* await ai.models.generateContent, JSON.parse, if (result.fact)
RecordOracle(p, results) ==
  /\ UNCHANGED <<localStorage, stickers, detached, db, opened, relations, sessions>>
  /\ frame[p].op = "recordConversationMemory"
  /\ frame[p].pc = "generateContent"
  /\ \/ frame' = [frame EXCEPT ![p].error = "oracle", ![p].pc = "returned"]
     \/ \E r \in results :
          frame' = [frame EXCEPT ![p].result = r,
                                 ![p].pc = IF r.fact = <<>> THEN "returned"
                                           ELSE "getShortTermMemories"]
  /\ UNCHANGED <<facts, clock>>

\* isDuplicateMemory: await getShortTermMemories()
RecordReadShortTerm(p) ==
  /\ UNCHANGED <<localStorage, stickers, detached, db, opened, relations, sessions>>
  /\ frame[p].op = "recordConversationMemory"
  /\ frame[p].pc = "getShortTermMemories"
  /\ \/ frame' = [frame EXCEPT ![p].error = "storage", ![p].pc = "returned"]
     \/ frame' = [frame EXCEPT ![p].shortTermMemories = getShortTermMemories(facts),
                               ![p].pc = "getLongTermMemories"]
  /\ UNCHANGED <<facts, clock>>

\* isDuplicateMemory: await getLongTermMemories(), the scan, if (isDuplicate) return
RecordReadLongTerm(p) ==
  /\ UNCHANGED <<localStorage, stickers, detached, db, opened, relations, sessions>>
  /\ frame[p].op = "recordConversationMemory"
  /\ frame[p].pc = "getLongTermMemories"
  /\ \/ frame' = [frame EXCEPT ![p].error = "storage", ![p].pc = "returned"]
     \/ LET longTerm == getLongTermMemories(facts)
            dup == isDuplicateMemory(frame[p].shortTermMemories, longTerm, frame[p].result.fact)
        IN frame' = [frame EXCEPT ![p].longTermMemories = longTerm,
                                  ![p].isDuplicate = dup,
                                  ![p].pc = IF dup THEN "returned" ELSE "addMemoryFact"]
  /\ UNCHANGED <<facts, clock>>

\* await addMemoryFact({...})
RecordAdd(p) ==
  /\ UNCHANGED <<localStorage, stickers, detached, db, opened, relations, sessions>>
  /\ frame[p].op = "recordConversationMemory"
  /\ frame[p].pc = "addMemoryFact"
  /\ \/ /\ frame' = [frame EXCEPT ![p].error = "storage", ![p].pc = "returned"]
        /\ UNCHANGED <<facts, clock>>
     \/ /\ clock < MaxClock
        /\ facts' = addMemoryFact(facts, RecordedFact(frame[p].result), clock + 1)
        /\ clock' = clock + 1
        /\ frame' = [frame EXCEPT ![p].pc = "returned"]

RecordStep(p, results) ==
  \/ RecordOracle(p, results)
  \/ RecordReadShortTerm(p)
  \/ RecordReadLongTerm(p)
  \/ RecordAdd(p)

\* one call at a time, the user's edits between calls
NextRecord ==
  \/ RecordCall("p1")
  \/ RecordStep("p1", OracleResults)
  \/ Settle("p1")
  \/ AllIdle /\ \E factId \in Ids : PromoteToLongTerm(factId)
  \/ AllIdle /\ \E factId \in Ids : DeleteMemoryFact(factId)

SpecRecord == InitEmpty /\ [][NextRecord]_vars

\* two handleSend calls whose recordings overlap
RaceResults ==
  {NoResult} \cup {r \in OracleResults : r.fact \in {HateCilantro, DislikesLeekAndCilantro} /\ r.importance = 9}

NextRace == \E p \in Procs : RecordCall(p) \/ RecordStep(p, RaceResults) \/ Settle(p)

SpecRace == InitEmpty /\ [][NextRace]_vars

(* --------------------------- organizeMemories -------------------------- *)

\* keepIndices.has(i + 1), i counted from 0
Kept_ZeroBased(keepIndices, i) == i \in keepIndices

Kept(keepIndices, i) == (i + 1) \in keepIndices

\* the next i >= from at which the loop awaits a promotion, or n when it runs out
NextKept(keepIndices, from, n) ==
  LET c == {j \in from..(n - 1) : Kept(keepIndices, j)}
  IN IF c = {} THEN n ELSE CHOOSE j \in c : \A x \in c : j <= x

FallbackKeepCount_Half(n) == n \div 2

\* Math.floor(n * 0.4): the double nearest 0.4 lies above 0.4, and n * 0.4 is within
\* one rounding of it, so the product never falls below the integer 2n/5 when 5 divides n
FallbackKeepCount(n) == (n * 4) \div 10

\* new Set(result.keep_indices || []): numbers, in range or not
KeepReplies(n) == {K \in SUBSET (0..(n + 1)) : Cardinality(K) <= MaxKeep}

ShouldDeleteOriginals_Always(summarized) == summarized >= 0

\* if (summarized > 0)
ShouldDeleteOriginals(summarized) == summarized > 0

\* organizeMemories has its result: it returns, or organizeAndSummarizeLongTerm goes on
\* to if (longTermMemories.length >= 8)
AfterOrganize(fr) ==
  IF fr.op = "organizeAndSummarizeLongTerm" /\ Len(fr.longTermMemories) >= SummarizeFloor
  THEN [fr EXCEPT !.pc = "summarize.generateContent"]
  ELSE [fr EXCEPT !.pc = "returned"]

Organizing(p) == frame[p].op \in {"organizeMemories", "organizeAndSummarizeLongTerm"}

OrganizeCall(p) == Call(p, "organizeMemories", "organize.getShortTermMemories")

\* await getShortTermMemories(), if (shortTermMemories.length < 5) return
OrganizeReadShortTerm(p) ==
  /\ UNCHANGED <<localStorage, stickers, detached, db, opened, relations, sessions>>
  /\ Organizing(p)
  /\ frame[p].pc = "organize.getShortTermMemories"
  /\ \/ frame' = [frame EXCEPT ![p].pc = "rejected"]
     \/ LET shortTerm == getShortTermMemories(facts)
            fr == [frame[p] EXCEPT !.shortTermMemories = shortTerm]
        IN frame' = [frame EXCEPT ![p] =
                       IF Len(shortTerm) < PromoteFloor
                       THEN AfterOrganize(fr)
                       ELSE [fr EXCEPT !.pc = "organize.generateContent"]]
  /\ UNCHANGED <<facts, clock>>

\* the promotion loop up to its next await, or its end
OrganizeLoop(fr, from) ==
  LET n == Len(fr.shortTermMemories)
      next == NextKept(fr.keepIndices, from, n)
  IN IF next < n
     THEN [fr EXCEPT !.i = next, !.pc = "organize.promoteToLongTerm"]
     ELSE AfterOrganize([fr EXCEPT !.i = n, !.removed = n - fr.promoted])

\* the catch block up to its next await, or its end
FallbackLoop(fr, from) ==
  LET n == Len(fr.shortTermMemories)
      keepCount == FallbackKeepCount(n)
  IN IF from < keepCount
     THEN [fr EXCEPT !.i = from, !.pc = "fallback.promoteToLongTerm"]
     ELSE AfterOrganize([fr EXCEPT !.i = from, !.promoted = keepCount,
                                   !.removed = n - keepCount])

\* await ai.models.generateContent, JSON.parse, new Set(result.keep_indices || [])
OrganizeOracle(p) ==
  /\ UNCHANGED <<localStorage, stickers, detached, db, opened, relations, sessions>>
  /\ Organizing(p)
  /\ frame[p].pc = "organize.generateContent"
  /\ \/ frame' = [frame EXCEPT ![p] = FallbackLoop([frame[p] EXCEPT !.error = "oracle"], 0)]
     \/ \E K \in KeepReplies(Len(frame[p].shortTermMemories)) :
          frame' = [frame EXCEPT ![p] = OrganizeLoop([frame[p] EXCEPT !.keepIndices = K], 0)]
  /\ UNCHANGED <<facts, clock>>

\* await promoteToLongTerm(shortTermMemories[i].id); promoted++
OrganizePromote(p) ==
  /\ UNCHANGED <<localStorage, stickers, detached, db, opened, relations, sessions>>
  /\ Organizing(p)
  /\ frame[p].pc = "organize.promoteToLongTerm"
  /\ \/ /\ frame' = [frame EXCEPT ![p] = FallbackLoop([frame[p] EXCEPT !.error = "storage"], 0)]
        /\ UNCHANGED facts
     \/ /\ facts' = promoteToLongTerm(facts, frame[p].shortTermMemories[frame[p].i + 1].id)
        /\ frame' = [frame EXCEPT ![p] =
                       OrganizeLoop([frame[p] EXCEPT !.promoted = @ + 1], frame[p].i + 1)]
  /\ UNCHANGED clock

\* catch: await promoteToLongTerm(shortTermMemories[i].id) for i < keepCount
OrganizeFallback(p) ==
  /\ UNCHANGED <<localStorage, stickers, detached, db, opened, relations, sessions>>
  /\ Organizing(p)
  /\ frame[p].pc = "fallback.promoteToLongTerm"
  /\ \/ /\ frame' = [frame EXCEPT ![p].pc = "rejected"]
        /\ UNCHANGED facts
     \/ /\ facts' = promoteToLongTerm(facts, frame[p].shortTermMemories[frame[p].i + 1].id)
        /\ frame' = [frame EXCEPT ![p] = FallbackLoop(frame[p], frame[p].i + 1)]
  /\ UNCHANGED clock

OrganizeStep(p) ==
  \/ OrganizeReadShortTerm(p)
  \/ OrganizeOracle(p)
  \/ OrganizePromote(p)
  \/ OrganizeFallback(p)

InitOrganize ==
  /\ \E short \in {PromoteFloor - 1, PromoteFloor, MaxShort} :
       facts = StoredBefore(short, 1)
  /\ clock = 0
  /\ frame = [p \in Procs |-> IdleFrame]
  /\ localStorage = <<>>
  /\ stickers = <<>>
  /\ detached = <<>>
  /\ db = [m \in Modules |-> 0]
  /\ opened = [m \in Modules |-> 0]
  /\ relations = <<>>
  /\ sessions = <<>>

NextOrganize ==
  \/ OrganizeCall("p1")
  \/ OrganizeStep("p1")
  \/ Settle("p1")

SpecOrganize == InitOrganize /\ [][NextOrganize]_vars

\* the oracle call of p is pending and the store is still the one it listed
OraclePending(p) ==
  /\ frame[p].op = "organizeMemories"
  /\ frame[p].pc = "organize.generateContent"
  /\ facts = frame[p].entry

\* organizeMemories with one edit of the memory panel, a delete or a promotion of a
\* listed fact, while the oracle call is pending
NextOrganizeEdited ==
  \/ NextOrganize
  \/ /\ OraclePending("p1")
     /\ \E n \in DOMAIN frame["p1"].shortTermMemories :
          DeleteMemoryFact(frame["p1"].shortTermMemories[n].id)
  \/ /\ OraclePending("p1")
     /\ \E n \in DOMAIN frame["p1"].shortTermMemories :
          PromoteToLongTerm(frame["p1"].shortTermMemories[n].id)

\* just enough short-term facts for the oracle to be asked
InitOrganizeEdited ==
  /\ facts = StoredBefore(PromoteFloor, 0)
  /\ clock = 0
  /\ frame = [p \in Procs |-> IdleFrame]
  /\ localStorage = <<>>
  /\ stickers = <<>>
  /\ detached = <<>>
  /\ db = [m \in Modules |-> 0]
  /\ opened = [m \in Modules |-> 0]
  /\ relations = <<>>
  /\ sessions = <<>>

SpecOrganizeEdited == InitOrganizeEdited /\ [][NextOrganizeEdited]_vars

(* --------------------- organizeAndSummarizeLongTerm -------------------- *)

CoreMemory == <<115, 49>>

SummaryTexts == {CoreMemory}

\* result.summaries || []: a list of strings
SummaryReplies ==
  UNION {[1..n -> SummaryTexts] : n \in 0..MaxSummaries}

SummaryFact(summary) ==
  [fact |-> summary, category |-> "shared_event", type |-> "long_term",
   importance |-> SummaryImportance, source |-> "system"]

ConsolidateCall(p) == Call(p, "organizeAndSummarizeLongTerm", "getLongTermMemories")

\* await getLongTermMemories(), then organizeMemories()
ConsolidateReadLongTerm(p) ==
  /\ UNCHANGED <<localStorage, stickers, detached, db, opened, relations, sessions>>
  /\ frame[p].op = "organizeAndSummarizeLongTerm"
  /\ frame[p].pc = "getLongTermMemories"
  /\ \/ frame' = [frame EXCEPT ![p].pc = "rejected"]
     \/ frame' = [frame EXCEPT ![p].longTermMemories = getLongTermMemories(facts),
                               ![p].pc = "organize.getShortTermMemories"]
  /\ UNCHANGED <<facts, clock>>

\* summarizeLongTermMemories has returned { summarized }: if (summarized > 0) the
\* deletion loop starts, else the call returns
AfterSummarize(fr, summarized) ==
  [fr EXCEPT !.summarized = summarized, !.i = 0,
             !.pc = IF ShouldDeleteOriginals(summarized) THEN "deleteMemoryFact"
                    ELSE "returned"]

\* summarizeLongTermMemories: await ai.models.generateContent, JSON.parse
SummarizeOracle(p) ==
  /\ UNCHANGED <<localStorage, stickers, detached, db, opened, relations, sessions>>
  /\ frame[p].op = "organizeAndSummarizeLongTerm"
  /\ frame[p].pc = "summarize.generateContent"
  /\ \/ frame' = [frame EXCEPT ![p] =
                    AfterSummarize([frame[p] EXCEPT !.reply = "failed",
                                                    !.summarizeError = "oracle"], 0)]
     \/ \E summaries \in SummaryReplies :
          frame' = [frame EXCEPT ![p] =
                      IF summaries = <<>>
                      THEN AfterSummarize([frame[p] EXCEPT !.reply = "empty"], 0)
                      ELSE [frame[p] EXCEPT !.reply = "list", !.summaries = summaries,
                                            !.i = 0, !.pc = "summarize.addMemoryFact"]]
  /\ UNCHANGED <<facts, clock>>

\* summarizeLongTermMemories: await addMemoryFact({fact: summary, ...}) for each summary;
\* a failure is caught there and reported as { summarized: 0 }
SummarizeAdd(p) ==
  /\ UNCHANGED <<localStorage, stickers, detached, db, opened, relations, sessions>>
  /\ frame[p].op = "organizeAndSummarizeLongTerm"
  /\ frame[p].pc = "summarize.addMemoryFact"
  /\ \/ /\ frame' = [frame EXCEPT ![p] =
                       AfterSummarize([frame[p] EXCEPT !.summarizeError = "storage"], 0)]
        /\ UNCHANGED <<facts, clock>>
     \/ /\ clock < MaxClock
        /\ facts' = addMemoryFact(facts, SummaryFact(frame[p].summaries[frame[p].i + 1]), clock + 1)
        /\ clock' = clock + 1
        /\ frame' = [frame EXCEPT ![p] =
                       IF frame[p].i + 1 = Len(frame[p].summaries)
                       THEN AfterSummarize(frame[p], Len(frame[p].summaries))
                       ELSE [frame[p] EXCEPT !.i = @ + 1]]

\* for (const mem of longTermMemories) await deleteMemoryFact(mem.id)
ConsolidateDelete(p) ==
  /\ UNCHANGED <<localStorage, stickers, detached, db, opened, relations, sessions>>
  /\ frame[p].op = "organizeAndSummarizeLongTerm"
  /\ frame[p].pc = "deleteMemoryFact"
  /\ \/ /\ frame' = [frame EXCEPT ![p].pc = "rejected"]
        /\ UNCHANGED facts
     \/ /\ facts' = deleteMemoryFact(facts, frame[p].longTermMemories[frame[p].i + 1].id)
        /\ frame' = [frame EXCEPT
                       ![p].i = @ + 1,
                       ![p].pc = IF frame[p].i + 1 = Len(frame[p].longTermMemories)
                                 THEN "returned" ELSE "deleteMemoryFact"]
  /\ UNCHANGED clock

ConsolidateStep(p) ==
  \/ ConsolidateReadLongTerm(p)
  \/ OrganizeStep(p)
  \/ SummarizeOracle(p)
  \/ SummarizeAdd(p)
  \/ ConsolidateDelete(p)

InitConsolidate ==
  /\ \E short \in {0, PromoteFloor}, long \in {SummarizeFloor - 1, SummarizeFloor, MaxLong} :
       facts = StoredBefore(short, long)
  /\ clock = 0
  /\ frame = [p \in Procs |-> IdleFrame]
  /\ localStorage = <<>>
  /\ stickers = <<>>
  /\ detached = <<>>
  /\ db = [m \in Modules |-> 0]
  /\ opened = [m \in Modules |-> 0]
  /\ relations = <<>>
  /\ sessions = <<>>

NextConsolidate ==
  \/ ConsolidateCall("p1")
  \/ ConsolidateStep("p1")
  \/ Settle("p1")

SpecConsolidate == InitConsolidate /\ [][NextConsolidate]_vars

\* the store holds just enough long-term facts for a summary and no short-term fact
InitOverlap ==
  /\ facts = StoredBefore(0, SummarizeFloor)
  /\ clock = 0
  /\ frame = [p \in Procs |-> IdleFrame]
  /\ localStorage = <<>>
  /\ stickers = <<>>
  /\ detached = <<>>
  /\ db = [m \in Modules |-> 0]
  /\ opened = [m \in Modules |-> 0]
  /\ relations = <<>>
  /\ sessions = <<>>

\* two calls of organizeAndSummarizeLongTerm, one from each of two handleSend turns, each
\* made once; with no short-term fact organizeMemories returns after its read, so its
\* other steps are never enabled here
NextOverlap ==
  \E p \in Procs :
    \/ ConsolidateCall(p)
    \/ ConsolidateReadLongTerm(p)
    \/ OrganizeReadShortTerm(p)
    \/ SummarizeOracle(p)
    \/ SummarizeAdd(p)
    \/ ConsolidateDelete(p)

SpecOverlap == InitOverlap /\ [][NextOverlap]_vars

(* ------------------------ migrateFromLocalStorage ---------------------- *)

MemoryKey == "hikari_memory_v5"

\* facts written by the version that kept them in localStorage: a missing type,
\* importance or source is "", 0, ""
LegacyFacts ==
  {[fact |-> HateCilantro, category |-> "userinfo", type |-> "", importance |-> 0,
    source |-> ""],
   [fact |-> Leek, category |-> "userinfo", type |-> "long_term", importance |-> 7,
    source |-> "conversation"]}

MaxLegacy == 2

LegacyLists == UNION {[1..n -> LegacyFacts] : n \in 0..MaxLegacy}

\* oldData.relations || []
LegacyRelations == {<<>>, <<Likes>>}

\* the legacy fact written as it was read, the default left out
Migrated_AsStored(fact) == fact

\* if (!fact.type) { fact.type = 'short_term'; fact.importance = 0.5; fact.source = 'system' }
Migrated(fact) ==
  IF fact.type = ""
  THEN [fact EXCEPT !.type = "short_term", !.importance = 5, !.source = "system"]
  ELSE fact

\* the loops are over: localStorage.removeItem('hikari_memory_v5')
removeItem(storage, key) == [k \in DOMAIN storage \ {key} |-> storage[k]]

\* the loops are over, or there was nothing to loop over: the legacy entry is removed
\* and the call returns
MigrateDone(p, fr) ==
  /\ frame' = [frame EXCEPT ![p] = [fr EXCEPT !.pc = "returned"]]
  /\ localStorage' = removeItem(localStorage, MemoryKey)

\* the loop over oldData.facts is over: the loop over oldData.relations starts
AfterFacts(p, fr) ==
  IF fr.oldRelations = <<>>
  THEN MigrateDone(p, fr)
  ELSE /\ frame' = [frame EXCEPT ![p] = [fr EXCEPT !.i = 0, !.pc = "migrate.addRelation"]]
       /\ UNCHANGED localStorage

\* localStorage.getItem, if (!savedMemory) return, JSON.parse, up to the first await
MigrateCall(p) ==
  /\ frame[p].pc = "idle"
  /\ LET fr == [IdleFrame EXCEPT !.op = "migrateFromLocalStorage", !.entry = facts]
     IN IF MemoryKey \notin DOMAIN localStorage
        THEN /\ frame' = [frame EXCEPT ![p] = [fr EXCEPT !.pc = "returned"]]
             /\ UNCHANGED localStorage
        ELSE LET old == [fr EXCEPT !.oldData = localStorage[MemoryKey].facts,
                                   !.oldRelations = localStorage[MemoryKey].relations]
             IN IF old.oldData = <<>>
                THEN AfterFacts(p, old)
                ELSE /\ frame' = [frame EXCEPT ![p] = [old EXCEPT !.pc = "migrate.addMemoryFact"]]
                     /\ UNCHANGED localStorage
  /\ UNCHANGED <<facts, clock, stickers, detached, db, opened, relations, sessions>>

\* await addMemoryFact(fact) for each legacy fact; a failure is caught and logged
MigrateAdd(p) ==
  /\ frame[p].op = "migrateFromLocalStorage"
  /\ frame[p].pc = "migrate.addMemoryFact"
  /\ \/ /\ frame' = [frame EXCEPT ![p].error = "storage", ![p].pc = "returned"]
        /\ UNCHANGED <<facts, clock, localStorage>>
     \/ /\ clock < MaxClock
        /\ facts' = addMemoryFact(facts, Migrated(frame[p].oldData[frame[p].i + 1]), clock + 1)
        /\ clock' = clock + 1
        /\ IF frame[p].i + 1 = Len(frame[p].oldData)
           THEN AfterFacts(p, [frame[p] EXCEPT !.i = @ + 1])
           ELSE /\ frame' = [frame EXCEPT ![p].i = @ + 1]
                /\ UNCHANGED localStorage
  /\ UNCHANGED <<stickers, detached, db, opened, relations, sessions>>

\* await addRelation(relation) for each legacy relation; a failure is caught and logged
MigrateAddRelation(p) ==
  /\ frame[p].op = "migrateFromLocalStorage"
  /\ frame[p].pc = "migrate.addRelation"
  /\ \/ /\ frame' = [frame EXCEPT ![p].error = "storage", ![p].pc = "returned"]
        /\ UNCHANGED <<relations, clock, localStorage>>
     \/ /\ clock < MaxClock
        /\ relations' = addRelation(relations, frame[p].oldRelations[frame[p].i + 1], clock + 1)
        /\ clock' = clock + 1
        /\ IF frame[p].i + 1 = Len(frame[p].oldRelations)
           THEN MigrateDone(p, [frame[p] EXCEPT !.i = @ + 1])
           ELSE /\ frame' = [frame EXCEPT ![p].i = @ + 1]
                /\ UNCHANGED localStorage
  /\ UNCHANGED <<facts, stickers, detached, db, opened, sessions>>

\* the store and the legacy entry an application start can find
InitMigrate ==
  /\ facts = <<>>
  /\ clock = 0
  /\ frame = [p \in Procs |-> IdleFrame]
  /\ \E list \in LegacyLists, old \in LegacyRelations :
       localStorage \in {<<>>, (MemoryKey :> [facts |-> list, relations |-> old])}
  /\ stickers = <<>>
  /\ detached = <<>>
  /\ db = [m \in Modules |-> 0]
  /\ opened = [m \in Modules |-> 0]
  /\ relations = <<>>
  /\ sessions = <<>>

\* initializeApp awaits the migration; the user's edits come between calls
NextMigrate ==
  \/ MigrateCall("p1")
  \/ MigrateAdd("p1")
  \/ MigrateAddRelation("p1")
  \/ Settle("p1")
  \/ AllIdle /\ \E fact \in {f \in UserFacts : f.fact = Leek} : AddMemoryFact(fact)
  \/ AllIdle /\ \E factId \in Ids : PromoteToLongTerm(factId)
  \/ AllIdle /\ \E factId \in Ids, updates \in {u \in Updates : "type" \in DOMAIN u} :
                   UpdateMemoryFact(factId, updates)

SpecMigrate == InitMigrate /\ [][NextMigrate]_vars

(* --------------------------- the sticker cache ------------------------- *)

\* texts of the cache, as code units: "happy", "ab", "a", "red heart sticker", "AB"
Happy == <<104, 97, 112, 112, 121>>
Ab == <<97, 98>>
OneUnit == <<97>>
RedHeartSticker ==
  <<114, 101, 100, 32, 104, 101, 97, 114, 116, 32, 115, 116, 105, 99, 107, 101, 114>>
UpperAb == <<65, 66>>
\* "sticker"
StickerWord == <<115, 116, 105, 99, 107, 101, 114>>

Space == <<32>>

\* CHARACTER_VISUAL_BASE
CharacterVisualBase ==
  <<67, 104, 105, 98, 105, 32, 97, 110, 105, 109, 101, 32, 115, 116, 121, 108, 101, 44,
  32, 49, 55, 45, 121, 101, 97, 114, 45, 111, 108, 100, 32, 103, 105, 114, 108, 32, 72,
  111, 115, 104, 105, 110, 111, 32, 72, 105, 107, 97, 114, 105, 44, 32, 112, 105, 110,
  107, 32, 114, 105, 98, 98, 111, 110, 115, 32, 105, 110, 32, 104, 97, 105, 114, 44, 32,
  98, 108, 117, 101, 32, 101, 110, 101, 114, 103, 101, 116, 105, 99, 32, 101, 121, 101,
  115, 44, 32, 119, 104, 105, 116, 101, 32, 97, 110, 100, 32, 112, 105, 110, 107, 32,
  105, 100, 111, 108, 32, 111, 117, 116, 102, 105, 116, 44, 32, 115, 105, 109, 112, 108,
  101, 32, 99, 108, 101, 97, 110, 32, 108, 105, 110, 101, 97, 114, 116, 44, 32, 119,
  104, 105, 116, 101, 32, 98, 97, 99, 107, 103, 114, 111, 117, 110, 100, 44, 32, 104,
  105, 103, 104, 32, 113, 117, 97, 108, 105, 116, 121, 32, 50, 68, 32, 118, 101, 99,
  116, 111, 114, 32, 115, 116, 105, 99, 107, 101, 114, 46>>

\* the pieces of the prompt templates of generateSticker
EmotionMid ==
  <<32, 69, 120, 112, 114, 101, 115, 115, 105, 111, 110, 58, 32>>
EmotionEnd ==
  <<46, 32, 87, 104, 105, 116, 101, 32, 98, 97, 99, 107, 103, 114, 111, 117, 110, 100,
  46>>
FoodStart ==
  <<75, 97, 119, 97, 105, 105, 32, 119, 97, 116, 101, 114, 99, 111, 108, 111, 114, 32,
  102, 111, 111, 100, 32, 115, 116, 105, 99, 107, 101, 114, 58, 32>>
FoodEnd ==
  <<44, 32, 119, 104, 105, 116, 101, 32, 98, 97, 99, 107, 103, 114, 111, 117, 110, 100,
  44, 32, 115, 111, 102, 116, 32, 115, 104, 97, 100, 105, 110, 103, 46>>
LandmarkStart ==
  <<67, 117, 116, 101, 32, 99, 104, 105, 98, 105, 32, 108, 97, 110, 100, 115, 99, 97,
  112, 101, 32, 115, 116, 105, 99, 107, 101, 114, 58, 32>>
LandmarkEnd ==
  <<44, 32, 119, 104, 105, 116, 101, 32, 98, 97, 99, 107, 103, 114, 111, 117, 110, 100,
  46>>
MemeStart ==
  <<70, 117, 110, 110, 121, 32, 99, 104, 105, 98, 105, 32, 114, 101, 97, 99, 116, 105,
  111, 110, 32, 115, 116, 105, 99, 107, 101, 114, 44, 32>>
MemeEnd ==
  <<44, 32, 119, 104, 105, 116, 101, 32, 98, 97, 99, 107, 103, 114, 111, 117, 110, 100,
  46>>

\* String.prototype.toLowerCase on the code units of the texts used here (A-Z)
toLowerCase(text) ==
  [i \in 1..Len(text) |-> IF text[i] \in 65..90 THEN text[i] + 32 ELSE text[i]]

\* hash = ((hash << 5) - hash) + char, hash & hash, Math.abs: on a gram of two code
\* units the value is 31 * c0 + c1 < 2^22, which the 32-bit conversion and
\* Math.abs leave as it is
RECURSIVE hashFrom(_, _, _)
hashFrom(str, i, hash) ==
  IF i > Len(str) THEN hash ELSE hashFrom(str, i + 1, (hash * 32 - hash) + str[i])

hashString(str) == hashFrom(str, 1, 0)

Dimensions == 256

\* the sum of two vectors given by their non-zero components
Plus(vec1, vec2) ==
  [b \in DOMAIN vec1 \cup DOMAIN vec2 |->
     (IF b \in DOMAIN vec1 THEN vec1[b] ELSE 0) + (IF b \in DOMAIN vec2 THEN vec2[b] ELSE 0)]

\* vector[hash % 256] += count over the grams at positions lo..hi, by halves
RECURSIVE FoldGrams(_, _, _)
FoldGrams(lower, lo, hi) ==
  IF lo > hi THEN <<>>
  ELSE IF lo = hi THEN (hashString(<<lower[lo], lower[lo + 1]>>) % Dimensions) :> 1
  ELSE LET mid == (lo + hi) \div 2
       IN Plus(FoldGrams(lower, lo, mid), FoldGrams(lower, mid + 1, hi))

\* the sum of vec1[i] * vec2[i] over the components in S
RECURSIVE DotOver(_, _, _)
DotOver(S, vec1, vec2) ==
  IF S = {} THEN 0
  ELSE LET i == CHOOSE x \in S : TRUE
       IN vec1[i] * vec2[i] + DotOver(S \ {i}, vec1, vec2)

Dot(vec1, vec2) == DotOver(DOMAIN vec1 \cap DOMAIN vec2, vec1, vec2)

\* the magnitude taken as the sum of the components
computeTextEmbedding_L1(text) ==
  LET vector == FoldGrams(toLowerCase(text), 1, Len(text) - 1)
      sum == Dot(vector, [b \in DOMAIN vector |-> 1])
  IN [counts |-> vector, magnitude2 |-> sum * sum]

\* the returned vector, kept as the vector before the division (by its non-zero
\* components) and the square of the magnitude it is divided by: component b of
\* the result is counts[b] / sqrt(magnitude2) when magnitude > 0 and counts[b]
\* otherwise.  counts[b] is the number of positions i whose gram
\* text.toLowerCase().substring(i, i + 2) hashes to b (mod 256).
computeTextEmbedding(text) ==
  LET vector == FoldGrams(toLowerCase(text), 1, Len(text) - 1)
  IN [counts |-> vector, magnitude2 |-> Dot(vector, vector)]

\* a similarity dot / sqrt(mag) is kept as the pair; 0 is dot 0 over mag 1
ZeroSimilarity == [dot |-> 0, mag |-> 1]

\* dotProduct / (mag1 * mag2) on two returned vectors: the divisions by the
\* vectors' magnitudes scale the dot product and the product of the magnitudes
\* alike, so the quotient is the one of the vectors before the division
cosineSimilarity(vec1, vec2) ==
  LET mag1 == Dot(vec1.counts, vec1.counts)
      mag2 == Dot(vec2.counts, vec2.counts)
  IN IF mag1 = 0 \/ mag2 = 0 THEN ZeroSimilarity
     ELSE [dot |-> Dot(vec1.counts, vec2.counts), mag |-> mag1 * mag2]

\* s > t and s >= threshold on similarities; a threshold is in hundredths
Greater(s, t) == s.dot * s.dot * t.mag > t.dot * t.dot * s.mag

AtLeast(s, threshold) ==
  threshold <= 0 \/ s.dot * s.dot * 10000 >= threshold * threshold * s.mag

\* the sticker object built by saveSticker; the id embeds Date.now()
NewSticker(args, now) ==
  [id |-> now, prompt |-> args.prompt, type |-> args.type, detail |-> args.detail,
   imageData |-> args.imageData,
   embedding |-> computeTextEmbedding(args.prompt \o Space \o args.detail),
   createdAt |-> now, usageCount |-> 1]

\* store.add(sticker)
addSticker(store, sticker) == store @@ (sticker.id :> sticker)

\* index.getAll(type): the records of that type, in key order
RECURSIVE InKeyOrder(_, _)
InKeyOrder(store, ids) ==
  IF ids = {} THEN <<>>
  ELSE LET m == CHOOSE x \in ids : \A y \in ids : x <= y
       IN <<store[m]>> \o InKeyOrder(store, ids \ {m})

getAllOfType(store, type) ==
  InKeyOrder(store, {k \in DOMAIN store : store[k].type = type})

\* the scan that accepts every similarity above the running best, the threshold left out
Accepts_NoThreshold(similarity, bestSimilarity, threshold) ==
  Greater(similarity, bestSimilarity)

\* the scan asking for a similarity above the threshold
Accepts_AboveThreshold(similarity, bestSimilarity, threshold) ==
  /\ Greater(similarity, bestSimilarity)
  /\ similarity.dot * similarity.dot * 10000 > threshold * threshold * similarity.mag

\* the scan taking every artifact that reaches the threshold, the running best left out
Accepts_NoRunningBest(similarity, bestSimilarity, threshold) ==
  Greater(similarity, ZeroSimilarity) /\ AtLeast(similarity, threshold)

\* the scan taking an artifact that is no worse than the running best
Accepts_NotBelowBest(similarity, bestSimilarity, threshold) ==
  ~Greater(bestSimilarity, similarity) /\ AtLeast(similarity, threshold)

\* if (similarity > bestSimilarity && similarity >= threshold)
Accepts(similarity, bestSimilarity, threshold) ==
  Greater(similarity, bestSimilarity) /\ AtLeast(similarity, threshold)

\* for (const sticker of stickers) { ... }, from position i with the running best
RECURSIVE ScanFrom(_, _, _, _, _, _)
ScanFrom(list, i, queryEmbedding, threshold, bestMatch, bestSimilarity) ==
  IF i > Len(list) THEN bestMatch
  ELSE LET similarity == cosineSimilarity(queryEmbedding, list[i].embedding)
       IN IF Accepts(similarity, bestSimilarity, threshold)
          THEN ScanFrom(list, i + 1, queryEmbedding, threshold, list[i], similarity)
          ELSE ScanFrom(list, i + 1, queryEmbedding, threshold, bestMatch, bestSimilarity)

\* the match findSimilarSticker resolves with, NoSticker for null
findSimilarSticker(store, type, detail, threshold) ==
  ScanFrom(getAllOfType(store, type), 1, computeTextEmbedding(detail), threshold,
           NoSticker, ZeroSimilarity)

\* the update counting down
updateUsageCount_Decrement(store, id) ==
  IF id \in DOMAIN store
  THEN [store EXCEPT ![id].usageCount = @ - 1]
  ELSE store

\* sticker.usageCount++; store.put(sticker)
updateUsageCount(store, id) ==
  IF id \in DOMAIN store
  THEN [store EXCEPT ![id].usageCount = @ + 1]
  ELSE store

deleteSticker(store, id) == [k \in DOMAIN store \ {id} |-> store[k]]

(* ------------------- the cache's operations, as called ----------------- *)

DefaultThreshold == 85
GenerateThreshold == 70

\* updateUsageCount(bestMatch.id).catch(console.error)
UsageTask(id) ==
  [op |-> "updateUsageCount", pc |-> "initDB", error |-> "none", id |-> id,
   args |-> NoArgs, sticker |-> NoSticker]

\* saveSticker(finalPrompt, request.type, request.detail, imageData).catch(console.error)
SaveTask(args) ==
  [op |-> "saveSticker", pc |-> "initDB", error |-> "none", id |-> 0,
   args |-> args, sticker |-> NoSticker]

SaveArgs ==
  {[prompt |-> a[1], type |-> a[2], detail |-> a[3], imageData |-> "data:image/png;base64,AA",
    threshold |-> 0] :
     a \in {<<RedHeartSticker, "hikari_emotion", Happy>>, <<UpperAb, "hikari_emotion", Ab>>,
            <<UpperAb, "meme", Ab>>}}

FindArgs ==
  {[NoArgs EXCEPT !.type = a[1], !.detail = a[2], !.threshold = a[3]] :
     a \in {<<"hikari_emotion", Happy, GenerateThreshold>>, <<"hikari_emotion", Ab, GenerateThreshold>>,
            <<"meme", Ab, GenerateThreshold>>, <<"meme", Ab, DefaultThreshold>>,
            <<"meme", OneUnit, GenerateThreshold>>}}

CacheCall(p, name, first, args) ==
  /\ frame[p].pc = "idle"
  /\ Len(detached) + Cardinality({q \in Procs : frame[q].pc # "idle"}) < MaxDetached
  /\ frame' = [frame EXCEPT ![p] = [IdleFrame EXCEPT !.op = name, !.pc = first, !.args = args]]
  /\ UNCHANGED <<facts, clock, localStorage, stickers, detached, db, opened, relations, sessions>>

SaveCall(p, args) == CacheCall(p, "saveSticker", "save.initDB", args)

\* await initDB(), then the sticker object is built and store.add is issued
SaveInitDB(p) ==
  /\ frame[p].op = "saveSticker"
  /\ frame[p].pc = "save.initDB"
  /\ \/ /\ frame' = [frame EXCEPT ![p].error = "storage", ![p].pc = "rejected"]
        /\ UNCHANGED clock
     \/ /\ clock < MaxClock
        /\ clock' = clock + 1
        /\ frame' = [frame EXCEPT ![p].sticker = NewSticker(frame[p].args, clock + 1),
                                  ![p].pc = "save.add"]
  /\ UNCHANGED <<facts, localStorage, stickers, detached, db, opened, relations, sessions>>

\* request.onsuccess resolves with the sticker, request.onerror rejects
SaveAdd(p) ==
  /\ frame[p].op = "saveSticker"
  /\ frame[p].pc = "save.add"
  /\ \/ /\ frame' = [frame EXCEPT ![p].error = "storage", ![p].pc = "rejected"]
        /\ UNCHANGED stickers
     \/ /\ stickers' = addSticker(stickers, frame[p].sticker)
        /\ frame' = [frame EXCEPT ![p].pc = "returned"]
  /\ UNCHANGED <<facts, clock, localStorage, detached, db, opened, relations, sessions>>

FindCall(p, args) == CacheCall(p, "findSimilarSticker", "find.initDB", args)

Finding(p) == frame[p].op \in {"findSimilarSticker", "generateSticker"}

\* await initDB(); generateSticker awaits findSimilarSticker outside its try block
FindInitDB(p) ==
  /\ Finding(p)
  /\ frame[p].pc = "find.initDB"
  /\ \/ frame' = [frame EXCEPT ![p].error = "storage", ![p].pc = "rejected"]
     \/ frame' = [frame EXCEPT ![p].pc = "find.getAll"]
  /\ UNCHANGED <<facts, clock, localStorage, stickers, detached, db, opened, relations, sessions>>

KnownTypes == {"hikari_emotion", "food_item", "landmark", "meme"}

\* finalPrompt for a request of a known type
FinalPrompt(type, detail) ==
  IF type = "hikari_emotion" THEN CharacterVisualBase \o EmotionMid \o detail \o EmotionEnd
  ELSE IF type = "food_item" THEN FoodStart \o detail \o FoodEnd
  ELSE IF type = "landmark" THEN LandmarkStart \o detail \o LandmarkEnd
  ELSE MemeStart \o detail \o MemeEnd

\* findSimilarSticker has resolved with fr.bestMatch: it returns (fr.stickers is
\* the list it scanned, gone with the call in generateSticker), or generateSticker
\* returns the cached image, builds the prompt, or returns null for an unknown type
AfterFind(fr) ==
  IF fr.op = "findSimilarSticker" THEN [fr EXCEPT !.pc = "returned"]
  ELSE IF fr.bestMatch # NoSticker
  THEN [fr EXCEPT !.imageData = fr.bestMatch.imageData, !.stickers = <<>>, !.pc = "returned"]
  ELSE IF fr.args.type \in KnownTypes
  THEN [fr EXCEPT !.args.prompt = FinalPrompt(fr.args.type, fr.args.detail),
                  !.stickers = <<>>, !.pc = "generate.generateContent"]
  ELSE [fr EXCEPT !.stickers = <<>>, !.pc = "returned"]

\* the lookup awaiting the usage-count write before it resolves
FindGetAll_AwaitsUpdate(p) ==
  /\ Finding(p)
  /\ frame[p].pc = "find.getAll"
  /\ \/ /\ frame' = [frame EXCEPT ![p].error = "storage", ![p].pc = "rejected"]
        /\ UNCHANGED stickers
     \/ LET bestMatch == findSimilarSticker(stickers, frame[p].args.type, frame[p].args.detail,
                                            frame[p].args.threshold)
        IN /\ frame' = [frame EXCEPT ![p] =
                          AfterFind([frame[p] EXCEPT
                                       !.stickers = getAllOfType(stickers, frame[p].args.type),
                                       !.bestMatch = bestMatch])]
           /\ stickers' = IF bestMatch # NoSticker
                          THEN updateUsageCount(stickers, bestMatch.id)
                          ELSE stickers
  /\ UNCHANGED <<facts, clock, localStorage, detached, db, opened, relations, sessions>>

\* index.getAll(type), the scan, updateUsageCount dispatched, resolve(bestMatch)
FindGetAll(p) ==
  /\ Finding(p)
  /\ frame[p].pc = "find.getAll"
  /\ \/ /\ frame' = [frame EXCEPT ![p].error = "storage", ![p].pc = "rejected"]
        /\ UNCHANGED detached
     \/ LET bestMatch == findSimilarSticker(stickers, frame[p].args.type, frame[p].args.detail,
                                            frame[p].args.threshold)
        IN /\ frame' = [frame EXCEPT ![p] =
                          AfterFind([frame[p] EXCEPT
                                       !.stickers = getAllOfType(stickers, frame[p].args.type),
                                       !.bestMatch = bestMatch])]
           /\ detached' = IF bestMatch # NoSticker
                          THEN Append(detached, UsageTask(bestMatch.id))
                          ELSE detached
  /\ UNCHANGED <<facts, clock, localStorage, stickers, db, opened, relations, sessions>>

\* updateUsageCount: await initDB()
UsageInitDB(n) ==
  /\ detached[n].op = "updateUsageCount"
  /\ detached[n].pc = "initDB"
  /\ \/ detached' = [detached EXCEPT ![n].error = "open", ![n].pc = "rejected"]
     \/ detached' = [detached EXCEPT ![n].pc = "transaction"]
  /\ UNCHANGED <<facts, clock, frame, localStorage, stickers, db, opened, relations, sessions>>

\* the update reading in one transaction and writing what it read, plus one, in another
UsageTransaction_ReadThenWrite(n) ==
  /\ detached[n].op = "updateUsageCount"
  /\ detached[n].pc = "transaction"
  /\ \/ /\ detached' = [detached EXCEPT ![n].error = "read", ![n].pc = "rejected"]
        /\ UNCHANGED stickers
     \/ /\ detached[n].sticker = NoSticker
        /\ detached[n].id \in DOMAIN stickers
        /\ detached' = [detached EXCEPT ![n].sticker = stickers[detached[n].id]]
        /\ UNCHANGED stickers
     \/ /\ detached[n].sticker = NoSticker
        /\ detached[n].id \notin DOMAIN stickers
        /\ detached' = [detached EXCEPT ![n].pc = "resolved"]
        /\ UNCHANGED stickers
     \/ /\ detached[n].sticker # NoSticker
        /\ stickers' = addSticker(deleteSticker(stickers, detached[n].id),
                                  [detached[n].sticker EXCEPT !.usageCount = @ + 1])
        /\ detached' = [detached EXCEPT ![n].sticker = NoSticker, ![n].pc = "resolved"]
  /\ UNCHANGED <<facts, clock, frame, localStorage, db, opened, relations, sessions>>

\* updateUsageCount: store.get(id) and store.put(sticker) in one transaction; the promise
\* resolves when put is issued, and a failing put aborts the transaction
UsageTransaction(n) ==
  /\ detached[n].op = "updateUsageCount"
  /\ detached[n].pc = "transaction"
  /\ \/ /\ detached' = [detached EXCEPT ![n].error = "read", ![n].pc = "rejected"]
        /\ UNCHANGED stickers
     \/ /\ detached[n].id \in DOMAIN stickers
        /\ detached' = [detached EXCEPT ![n].error = "put", ![n].pc = "resolved"]
        /\ UNCHANGED stickers
     \/ /\ stickers' = updateUsageCount(stickers, detached[n].id)
        /\ detached' = [detached EXCEPT ![n].pc = "resolved"]
  /\ UNCHANGED <<facts, clock, frame, localStorage, db, opened, relations, sessions>>

\* deleteSticker(id), from the sticker library
DeleteSticker(id) ==
  /\ stickers' = deleteSticker(stickers, id)
  /\ UNCHANGED <<facts, clock, frame, localStorage, detached, db, opened, relations, sessions>>

\* the library's calls one at a time, the dispatched updates running between their steps
CacheSteps(saves, finds) ==
  \/ \E args \in saves : SaveCall("p1", args)
  \/ SaveInitDB("p1")
  \/ SaveAdd("p1")
  \/ \E args \in finds : FindCall("p1", args)
  \/ FindInitDB("p1")
  \/ FindGetAll("p1")
  \/ Settle("p1")
  \/ \E n \in 1..Len(detached) : UsageInitDB(n)
  \/ \E n \in 1..Len(detached) : UsageTransaction(n)
  \/ \E id \in DOMAIN stickers : DeleteSticker(id)

NextCache == CacheSteps(SaveArgs, FindArgs)

SpecCache == InitEmpty /\ [][NextCache]_vars

Cd == <<99, 100>>

\* saves whose similarities to the query "ab" are 1/2 ("ab cd": one gram of four)
\* and sqrt(2/3) ("AB ab"), in two categories
LookupSaves ==
  {[prompt |-> a[1], type |-> a[2], detail |-> a[3], imageData |-> "data:image/png;base64,AA",
    threshold |-> 0] :
     a \in {<<Ab, "meme", Cd>>, <<UpperAb, "meme", Ab>>, <<UpperAb, "hikari_emotion", Ab>>}}

\* lookups at thresholds 0.5 and 0.7
LookupFinds ==
  {[NoArgs EXCEPT !.type = "meme", !.detail = Ab, !.threshold = t] :
     t \in {50, GenerateThreshold}}

NextLookup == CacheSteps(LookupSaves, LookupFinds)

\* a save whose text prompt + ' ' + detail is one space, without a gram, and one with grams
ZeroSaves ==
  {[prompt |-> a[1], type |-> "meme", detail |-> a[2], imageData |-> "data:image/png;base64,AA",
    threshold |-> 0] :
     a \in {<<<<>>, <<>>>>, <<UpperAb, Ab>>}}

\* lookups with a descriptor of one unit and of none, at thresholds 0, -0.5 and 0.85, and
\* one with a gram at threshold 0
ZeroFinds ==
  {[NoArgs EXCEPT !.type = "meme", !.detail = a[1], !.threshold = a[2]] :
     a \in {<<OneUnit, 0>>, <<OneUnit, 0 - 50>>, <<<<>>, DefaultThreshold>>, <<Ab, 0>>}}

NextZero == CacheSteps(ZeroSaves, ZeroFinds)

SpecZero == InitEmpty /\ [][NextZero]_vars

SpecLookup == InitEmpty /\ [][NextLookup]_vars

(* ---------------------------- generateSticker -------------------------- *)

\* the stickerRequest of a chat reply: a type the prompt templates know or not
Requests ==
  {[NoArgs EXCEPT !.type = a[1], !.detail = a[2], !.threshold = GenerateThreshold] :
     a \in {<<"meme", Happy>>, <<"meme", StickerWord>>, <<"gif", Happy>>}}

\* data:${mimeType};base64,${data} of the first part with inlineData
Images == {"data:image/png;base64,AA"}

GenerateCall(p, request) == CacheCall(p, "generateSticker", "find.initDB", request)

\* await ai.models.generateContent: it throws, replies without an image part, or with one;
\* saveSticker is dispatched and the image returned
GenerateOracle(p) ==
  /\ frame[p].op = "generateSticker"
  /\ frame[p].pc = "generate.generateContent"
  /\ \/ /\ frame' = [frame EXCEPT ![p].error = "oracle", ![p].pc = "returned"]
        /\ UNCHANGED detached
     \/ /\ frame' = [frame EXCEPT ![p].pc = "returned"]
        /\ UNCHANGED detached
     \/ \E imageData \in Images :
          /\ frame' = [frame EXCEPT ![p].imageData = imageData, ![p].pc = "returned"]
          /\ detached' = Append(detached,
                                SaveTask([frame[p].args EXCEPT !.imageData = imageData]))
  /\ UNCHANGED <<facts, clock, localStorage, stickers, db, opened, relations, sessions>>

\* the dispatched saveSticker: await initDB(), the sticker object, store.add issued
SaveTaskInitDB(n) ==
  /\ detached[n].op = "saveSticker"
  /\ detached[n].pc = "initDB"
  /\ \/ /\ detached' = [detached EXCEPT ![n].error = "open", ![n].pc = "rejected"]
        /\ UNCHANGED clock
     \/ /\ clock < MaxClock
        /\ clock' = clock + 1
        /\ detached' = [detached EXCEPT ![n].sticker = NewSticker(detached[n].args, clock + 1),
                                        ![n].id = clock + 1,
                                        ![n].pc = "transaction"]
  /\ UNCHANGED <<facts, frame, localStorage, stickers, db, opened, relations, sessions>>

\* the dispatched saveSticker: the add succeeds or fails; the failure is logged
SaveTaskAdd(n) ==
  /\ detached[n].op = "saveSticker"
  /\ detached[n].pc = "transaction"
  /\ \/ /\ detached' = [detached EXCEPT ![n].error = "add", ![n].pc = "rejected"]
        /\ UNCHANGED stickers
     \/ /\ stickers' = addSticker(stickers, detached[n].sticker)
        /\ detached' = [detached EXCEPT ![n].pc = "resolved"]
  /\ UNCHANGED <<facts, clock, frame, localStorage, db, opened, relations, sessions>>

\* sticker requests of chat replies, sequential or overlapping
NextSticker ==
  \/ \E p \in Procs, request \in Requests : GenerateCall(p, request)
  \/ \E p \in Procs : FindInitDB(p)
  \/ \E p \in Procs : FindGetAll(p)
  \/ \E p \in Procs : GenerateOracle(p)
  \/ \E p \in Procs : Settle(p)
  \/ \E n \in 1..Len(detached) : UsageInitDB(n)
  \/ \E n \in 1..Len(detached) : UsageTransaction(n)
  \/ \E n \in 1..Len(detached) : SaveTaskInitDB(n)
  \/ \E n \in 1..Len(detached) : SaveTaskAdd(n)

SpecSticker == InitEmpty /\ [][NextSticker]_vars

(* ------------------ promote and update, as awaited calls --------------- *)

PromoteCall(p, factId) ==
  /\ frame[p].pc = "idle"
  /\ frame' = [frame EXCEPT ![p] = [IdleFrame EXCEPT !.op = "promoteToLongTerm",
                                                     !.pc = "promote.get",
                                                     !.factId = factId, !.entry = facts]]
  /\ UNCHANGED <<facts, clock, localStorage, stickers, detached, db, opened, relations, sessions>>

\* the promotion writing back the fact as it was when the call was made
PromoteGet_StaleRead(p) ==
  /\ frame[p].op = "promoteToLongTerm"
  /\ frame[p].pc = "promote.get"
  /\ \/ /\ frame' = [frame EXCEPT ![p].error = "storage", ![p].pc = "rejected"]
        /\ UNCHANGED facts
     \/ /\ facts' = IF /\ frame[p].factId \in DOMAIN frame[p].entry
                       /\ frame[p].entry[frame[p].factId].type = "short_term"
                    THEN (frame[p].factId :>
                            [frame[p].entry[frame[p].factId] EXCEPT !.type = "long_term"])
                           @@ facts
                    ELSE facts
        /\ frame' = [frame EXCEPT ![p].pc = "returned"]
  /\ UNCHANGED <<clock, localStorage, stickers, detached, db, opened, relations, sessions>>

\* store.get(factId): onerror rejects; onsuccess puts the promoted fact, if any, and resolves
PromoteGet(p) ==
  /\ frame[p].op = "promoteToLongTerm"
  /\ frame[p].pc = "promote.get"
  /\ \/ /\ frame' = [frame EXCEPT ![p].error = "storage", ![p].pc = "rejected"]
        /\ UNCHANGED facts
     \/ /\ facts' = promoteToLongTerm(facts, frame[p].factId)
        /\ frame' = [frame EXCEPT ![p].pc = "returned"]
  /\ UNCHANGED <<clock, localStorage, stickers, detached, db, opened, relations, sessions>>

UpdateCall(p, factId, updates) ==
  /\ frame[p].pc = "idle"
  /\ frame' = [frame EXCEPT ![p] = [IdleFrame EXCEPT !.op = "updateMemoryFact",
                                                     !.pc = "update.get",
                                                     !.factId = factId, !.updates = updates,
                                                     !.entry = facts]]
  /\ UNCHANGED <<facts, clock, localStorage, stickers, detached, db, opened, relations, sessions>>

\* store.get(factId): onerror rejects; onsuccess puts { ...fact, ...updates }, if a fact
\* was found, and resolves
UpdateGet(p) ==
  /\ frame[p].op = "updateMemoryFact"
  /\ frame[p].pc = "update.get"
  /\ \/ /\ frame' = [frame EXCEPT ![p].error = "storage", ![p].pc = "rejected"]
        /\ UNCHANGED facts
     \/ /\ facts' = updateMemoryFact(facts, frame[p].factId, frame[p].updates)
        /\ frame' = [frame EXCEPT ![p].pc = "returned"]
  /\ UNCHANGED <<clock, localStorage, stickers, detached, db, opened, relations, sessions>>

\* a store of at most one short-term and one long-term fact
InitMutate ==
  /\ \E short \in 0..1, long \in 0..1 : facts = StoredBefore(short, long)
  /\ clock = 0
  /\ frame = [p \in Procs |-> IdleFrame]
  /\ localStorage = <<>>
  /\ stickers = <<>>
  /\ detached = <<>>
  /\ db = [m \in Modules |-> 0]
  /\ opened = [m \in Modules |-> 0]
  /\ relations = <<>>
  /\ sessions = <<>>

\* the memory panel's edits, one awaited call at a time
NextMutate ==
  \/ \E factId \in Ids : PromoteCall("p1", factId)
  \/ PromoteGet("p1")
  \/ \E factId \in Ids, updates \in {u \in Updates : "type" \in DOMAIN u} :
       UpdateCall("p1", factId, updates)
  \/ UpdateGet("p1")
  \/ Settle("p1")
  \/ AllIdle /\ \E fact \in {f \in UserFacts : f.fact = Leek /\ f.type = "short_term"} :
                   AddMemoryFact(fact)

SpecMutate == InitMutate /\ [][NextMutate]_vars

\* clearAllCache: store.clear()
ClearAllCache ==
  /\ stickers' = <<>>
  /\ UNCHANGED <<facts, clock, frame, localStorage, detached, db, opened, relations, sessions>>

\* one artifact cached and one short-term fact stored by earlier runs
InitPending ==
  /\ facts = StoredBefore(1, 0)
  /\ clock = 0
  /\ frame = [p \in Procs |-> IdleFrame]
  /\ localStorage = <<>>
  /\ stickers = addSticker(<<>>, NewSticker([NoArgs EXCEPT !.prompt = UpperAb, !.type = "meme",
                                                           !.detail = Ab], 0))
  /\ detached = <<>>
  /\ db = [m \in Modules |-> 0]
  /\ opened = [m \in Modules |-> 0]
  /\ relations = <<>>
  /\ sessions = <<>>

PendingFinds == {f \in FindArgs : f.type = "meme" /\ f.detail = Ab /\ f.threshold = GenerateThreshold}

\* the panel's edit of a fact's text
PendingUpdates == {u \in Updates : DOMAIN u = {"fact"}}

\* a promotion or an update of a fact is pending while the fact is deleted, from the panel
\* or by the deletion loop of a consolidation; a usage-count write is pending while the
\* library deletes its artifact or clears the cache
NextPending ==
  \/ \E args \in PendingFinds : FindCall("p1", args)
  \/ FindInitDB("p1")
  \/ FindGetAll("p1")
  \/ Settle("p1")
  \/ \E n \in 1..Len(detached) : UsageInitDB(n)
  \/ \E n \in 1..Len(detached) : UsageTransaction(n)
  \/ \E id \in DOMAIN stickers : DeleteSticker(id)
  \/ ClearAllCache
  \/ \E factId \in DOMAIN facts : PromoteCall("p2", factId)
  \/ PromoteGet("p2")
  \/ \E factId \in DOMAIN facts, updates \in PendingUpdates :
       UpdateCall("p2", factId, updates)
  \/ UpdateGet("p2")
  \/ Settle("p2")
  \/ \E factId \in DOMAIN facts : DeleteMemoryFact(factId)

SpecPending == InitPending /\ [][NextPending]_vars

(* --------------------------- shouldRecordMemory ------------------------ *)

\* Math.random() in tenths: 0.0, 0.1, ..., 0.9
Draws == 0..9

\* the test on odd turn counts only
shouldRecordMemory_OddTurns(conversationRounds, random) ==
  conversationRounds % 2 = 1 \/ random > 5

\* conversationRounds % 2 === 0 || Math.random() > 0.5
shouldRecordMemory(conversationRounds, random) ==
  conversationRounds % 2 = 0 \/ random > 5

\* the call is synchronous: it has returned when the caller takes its next step
ShouldRecord(p, conversationRounds, random) ==
  /\ frame[p].pc = "idle"
  /\ frame' = [frame EXCEPT ![p] =
                 [IdleFrame EXCEPT !.op = "shouldRecordMemory", !.pc = "returned",
                                   !.conversationRounds = conversationRounds,
                                   !.random = random,
                                   !.should = shouldRecordMemory(conversationRounds, random)]]
  /\ UNCHANGED <<facts, clock, localStorage, stickers, detached, db, opened, relations, sessions>>

NextTurns ==
  \/ \E p \in Procs, n \in 0..MaxRounds, r \in Draws : ShouldRecord(p, n, r)
  \/ \E p \in Procs : Settle(p)

SpecTurns == InitEmpty /\ [][NextTurns]_vars

(* ----------------------- extractMemoriesFromHistory --------------------- *)

\* a message of the history; content <<>> is the empty string, imageUrl "" is none
UserMessage(n) == [role |-> "user", content |-> MemoText(n), imageUrl |-> ""]
AssistantMessage(n) == [role |-> "assistant", content |-> MemoText(n), imageUrl |-> ""]
\* an assistant message that only carries a picture, and one with text and a picture
ImageMessage == [role |-> "assistant", content |-> <<>>, imageUrl |-> "blob"]
CaptionedImage(n) == [role |-> "assistant", content |-> MemoText(n), imageUrl |-> "blob"]
EmptyUserMessage == [role |-> "user", content |-> <<>>, imageUrl |-> ""]

\* u1, a1, ..., un, an
Alternating(n) ==
  [k \in 1..(2 * n) |-> IF k % 2 = 1 THEN UserMessage(k) ELSE AssistantMessage(k)]

Histories ==
  {Alternating(n) : n \in 0..3}
    \cup {<<AssistantMessage(1)>>,
          <<UserMessage(1), UserMessage(2), AssistantMessage(3)>>,
          <<UserMessage(1), ImageMessage, AssistantMessage(3)>>,
          <<UserMessage(1), CaptionedImage(2), EmptyUserMessage, AssistantMessage(4)>>,
          <<EmptyUserMessage, AssistantMessage(2), UserMessage(3), ImageMessage>>}

\* the inner for loop: the first j >= from that is an assistant message with text
\* and no picture, 0 when the loop runs out (indices count from 1)
RECURSIVE NextAssistant(_, _)
NextAssistant(messages, j) ==
  IF j > Len(messages) THEN 0
  ELSE IF /\ messages[j].role = "assistant" /\ messages[j].content # <<>>
          /\ messages[j].imageUrl = ""
       THEN j
       ELSE NextAssistant(messages, j + 1)

\* the while loop: after a pair, i = j + 1 and then the loop's own i++
RECURSIVE PairsFrom(_, _, _)
PairsFrom(messages, i, pairs) ==
  IF i > Len(messages) THEN pairs
  ELSE LET msg == messages[i]
           j == IF msg.role = "user" /\ msg.content # <<>>
                THEN NextAssistant(messages, i + 1) ELSE 0
       IN IF j # 0
          THEN PairsFrom(messages, j + 2,
                         Append(pairs, [user |-> msg.content, assistant |-> messages[j].content]))
          ELSE PairsFrom(messages, i + 1, pairs)

conversationPairs(messages) == PairsFrom(messages, 1, <<>>)

\* result.memories || []: some candidates have no fact, some no category or importance
Candidates ==
  {[fact |-> HateCilantro, category |-> "userinfo", importance |-> 9],
   [fact |-> Leek, category |-> "", importance |-> 0],
   NoResult}

Repeated(c, n) == [k \in 1..n |-> c]

MemoryLists ==
  {Repeated([fact |-> HateCilantro, category |-> "userinfo", importance |-> 9], n) :
     n \in 0..MaxExtract}
    \cup {<<c>> : c \in Candidates}
    \cup {<<c, d>> : c, d \in Candidates}

\* the fact handed to addMemoryFact for a candidate
ExtractedFact(mem) ==
  [fact |-> mem.fact,
   category |-> IF mem.category = "" THEN "shared_event" ELSE mem.category,
   type |-> "long_term",
   importance |-> IF mem.importance = 0 THEN ExtractDefaultImportance ELSE mem.importance,
   source |-> "system"]

\* for (const mem of memories) if (mem.fact): the next candidate with a fact, from
\* index from on; 0 when the loop ends
RECURSIVE NextCandidate(_, _)
NextCandidate(memories, from) ==
  IF from > Len(memories) THEN 0
  ELSE IF memories[from].fact # <<>> THEN from
       ELSE NextCandidate(memories, from + 1)

\* the loop up to its next await, or to the return after it
ExtractLoop(fr, from) ==
  LET next == NextCandidate(fr.memories, from)
  IN IF next = 0
     THEN [fr EXCEPT !.count = fr.addedCount, !.pc = "returned"]
     ELSE [fr EXCEPT !.i = next, !.pc = "extract.addMemoryFact"]

\* the call up to its first await: both early returns, the pairing loop
ExtractCall(p, messages) ==
  /\ frame[p].pc = "idle"
  /\ LET pairs == conversationPairs(messages)
     IN frame' = [frame EXCEPT ![p] =
                    [IdleFrame EXCEPT !.op = "extractMemoriesFromHistory",
                                      !.messages = messages,
                                      !.conversationPairs = pairs,
                                      !.entry = facts,
                                      !.pc = IF pairs = <<>> THEN "returned"
                                             ELSE "extract.generateContent"]]
  /\ UNCHANGED <<facts, clock, localStorage, stickers, detached, db, opened, relations, sessions>>

\* await ai.models.generateContent, JSON.parse; a failure is caught: count 0
ExtractOracle(p) ==
  /\ frame[p].op = "extractMemoriesFromHistory"
  /\ frame[p].pc = "extract.generateContent"
  /\ \/ frame' = [frame EXCEPT ![p].error = "oracle", ![p].count = 0, ![p].pc = "returned"]
     \/ \E memories \in MemoryLists :
          frame' = [frame EXCEPT ![p] = ExtractLoop([frame[p] EXCEPT !.memories = memories], 1)]
  /\ UNCHANGED <<facts, clock, localStorage, stickers, detached, db, opened, relations, sessions>>

\* the add refusing a text the store already holds
ExtractAdd_ChecksDuplicate(p) ==
  /\ frame[p].op = "extractMemoriesFromHistory"
  /\ frame[p].pc = "extract.addMemoryFact"
  /\ UNCHANGED <<localStorage, stickers, detached, db, opened, relations, sessions>>
  /\ \/ /\ frame' = [frame EXCEPT ![p].error = "storage", ![p].count = 0, ![p].pc = "returned"]
        /\ UNCHANGED <<facts, clock>>
     \/ /\ clock < MaxExtract
        /\ \E k \in DOMAIN facts : facts[k].fact = frame[p].memories[frame[p].i].fact
        /\ frame' = [frame EXCEPT ![p] = ExtractLoop(frame[p], frame[p].i + 1)]
        /\ UNCHANGED <<facts, clock>>
     \/ /\ clock < MaxExtract
        /\ ~ \E k \in DOMAIN facts : facts[k].fact = frame[p].memories[frame[p].i].fact
        /\ facts' = addMemoryFact(facts, ExtractedFact(frame[p].memories[frame[p].i]), clock + 1)
        /\ clock' = clock + 1
        /\ frame' = [frame EXCEPT ![p] =
                       ExtractLoop([frame[p] EXCEPT !.addedCount = @ + 1], frame[p].i + 1)]

\* await addMemoryFact({...}), addedCount++; a failure is caught: count 0
ExtractAdd(p) ==
  /\ frame[p].op = "extractMemoriesFromHistory"
  /\ frame[p].pc = "extract.addMemoryFact"
  /\ UNCHANGED <<localStorage, stickers, detached, db, opened, relations, sessions>>
  /\ \/ /\ frame' = [frame EXCEPT ![p].error = "storage", ![p].count = 0, ![p].pc = "returned"]
        /\ UNCHANGED <<facts, clock>>
     \/ /\ clock < MaxExtract
        /\ facts' = addMemoryFact(facts, ExtractedFact(frame[p].memories[frame[p].i]), clock + 1)
        /\ clock' = clock + 1
        /\ frame' = [frame EXCEPT ![p] =
                       ExtractLoop([frame[p] EXCEPT !.addedCount = @ + 1], frame[p].i + 1)]

\* a store of at most one earlier fact of each type
InitExtract ==
  /\ \E short \in 0..1, long \in 0..1 : facts = StoredBefore(short, long)
  /\ clock = 0
  /\ frame = [p \in Procs |-> IdleFrame]
  /\ localStorage = <<>>
  /\ stickers = <<>>
  /\ detached = <<>>
  /\ db = [m \in Modules |-> 0]
  /\ opened = [m \in Modules |-> 0]
  /\ relations = <<>>
  /\ sessions = <<>>

\* one call at a time
NextExtract ==
  \/ \E messages \in Histories : ExtractCall("p1", messages)
  \/ ExtractOracle("p1")
  \/ ExtractAdd("p1")
  \/ Settle("p1")

SpecExtract == InitExtract /\ [][NextExtract]_vars

(* ------------------------- computeTextEmbedding ------------------------ *)

\* the texts of at most MaxLen code units over a, b and A
RECURSIVE TextsOfLen(_)
TextsOfLen(n) ==
  IF n = 0 THEN {<<>>}
  ELSE {Append(t, c) : t \in TextsOfLen(n - 1), c \in {97, 98, 65}}

ShortTexts == UNION {TextsOfLen(n) : n \in 0..MaxLen}

\* the call is synchronous: it has returned when the caller takes its next step
Embed(p, text) ==
  /\ frame[p].pc = "idle"
  /\ frame' = [frame EXCEPT ![p] =
                 [IdleFrame EXCEPT !.op = "computeTextEmbedding", !.pc = "returned",
                                   !.text = text,
                                   !.embedding = computeTextEmbedding(text)]]
  /\ UNCHANGED <<facts, clock, localStorage, stickers, detached, db, opened, relations, sessions>>

NextEmbed ==
  \/ \E p \in Procs, text \in ShortTexts : Embed(p, text)
  \/ \E p \in Procs : Settle(p)

SpecEmbed == InitEmpty /\ [][NextEmbed]_vars

(* ------------------------ initMemoryDB and initDB ---------------------- *)

\* the executor of the returned promise, which runs inside the call: if (db) return
\* resolve(db), else indexedDB.open(...) is called and its handlers are set.  A
\* connection is named by the number of the open call that made it.
InitDBCall(p, m) ==
  /\ frame[p].pc = "idle"
  /\ LET fr == [IdleFrame EXCEPT !.op = IF m = "memoryManager" THEN "initMemoryDB" ELSE "initDB",
                                 !.module = m]
     IN IF db[m] # 0
        THEN /\ frame' = [frame EXCEPT ![p] = [fr EXCEPT !.database = db[m], !.pc = "returned"]]
             /\ UNCHANGED opened
        ELSE /\ opened[m] < MaxOpens
             /\ opened' = [opened EXCEPT ![m] = @ + 1]
             /\ frame' = [frame EXCEPT ![p] = [fr EXCEPT !.request = opened[m] + 1,
                                                         !.pc = "open"]]
  /\ UNCHANGED <<facts, clock, localStorage, stickers, detached, db, relations, sessions>>

\* request.onsuccess: db = request.result; resolve(db)
OpenSuccess(p) ==
  /\ frame[p].pc = "open"
  /\ db' = [db EXCEPT ![frame[p].module] = frame[p].request]
  /\ frame' = [frame EXCEPT ![p].database = frame[p].request, ![p].pc = "returned"]
  /\ UNCHANGED <<facts, clock, localStorage, stickers, detached, opened, relations, sessions>>

\* request.onerror: reject(request.error)
OpenError(p) ==
  /\ frame[p].pc = "open"
  /\ frame' = [frame EXCEPT ![p].error = "storage", ![p].pc = "rejected"]
  /\ UNCHANGED <<facts, clock, localStorage, stickers, detached, db, opened, relations, sessions>>

\* the operations of Promise.all([...]) each start with their own call
NextOpen ==
  \/ \E p \in Procs, m \in Modules : InitDBCall(p, m)
  \/ \E p \in Procs : OpenSuccess(p)
  \/ \E p \in Procs : OpenError(p)
  \/ \E p \in Procs : Settle(p)

SpecOpen == InitEmpty /\ [][NextOpen]_vars

(* ----------------------------- the sessions ---------------------------- *)

\* messages in one session
MaxMessages == 2
\* content.length > 20
TitleLength == 20

\* the title of a session without a user message, and '...'
NewChat == <<26032, 23545, 35805>>
Ellipsis == <<46, 46, 46>>

\* generateTitle: the first user message's content, cut to 20 units and '...' when longer
generateTitle(messages) ==
  LET users == {n \in 1..Len(messages) : messages[n].role = "user"}
  IN IF users = {} THEN NewChat
     ELSE LET firstUserMsg == messages[CHOOSE n \in users : \A m \in users : n <= m]
              content == firstUserMsg.content
          IN IF Len(content) > TitleLength
             THEN SubSeq(content, 1, TitleLength) \o Ellipsis
             ELSE content

DefaultPersonality == "default"

\* the session object createSession adds; the id embeds Date.now()
createSession(store, firstMessage, now) ==
  store @@ (now :> [id |-> now,
                    title |-> IF firstMessage # NoMessage THEN generateTitle(<<firstMessage>>)
                              ELSE NewChat,
                    messages |-> IF firstMessage # NoMessage THEN <<firstMessage>> ELSE <<>>,
                    createdAt |-> now, updatedAt |-> now, lastVisitTime |-> now,
                    personality |-> DefaultPersonality])

\* resolve(request.result || null)
getSession(store, sessionId) ==
  IF sessionId \in DOMAIN store THEN store[sessionId] ELSE NoSession

\* if (session.messages.length > 0) session.title = generateTitle(session.messages);
\* session.updatedAt = now; store.put(session)
updateSession(store, session, now) ==
  LET titled == IF Len(session.messages) > 0
                THEN [session EXCEPT !.title = generateTitle(session.messages)]
                ELSE session
  IN (session.id :> [titled EXCEPT !.updatedAt = now]) @@ store

Hello == [id |-> 1, role |-> "user", content |-> <<104, 105>>]
Welcome == [id |-> 2, role |-> "assistant", content |-> <<121, 111>>]
\* a user message of 21 units
LongHello == [id |-> 3, role |-> "user", content |-> [n \in 1..(TitleLength + 1) |-> 120]]

Renamed == <<116, 49>>

\* the ids a caller may name: every stored session, and one that is not stored
SessionIds == DOMAIN sessions \cup {clock + 1}

SessionCall(p, name, sessionId, newTitle, message, personality) ==
  /\ frame[p].pc = "idle"
  /\ frame' = [frame EXCEPT ![p] =
                 [IdleFrame EXCEPT !.op = name, !.pc = "getSession", !.sessionId = sessionId,
                                   !.newTitle = newTitle, !.message = message,
                                   !.personality = personality]]
  /\ UNCHANGED <<facts, clock, localStorage, stickers, detached, db, opened, relations, sessions>>

UpdateTitleCall(p, sessionId, newTitle) ==
  SessionCall(p, "updateSessionTitle", sessionId, newTitle, NoMessage, "")

\* the calls are made while the session has room for the message
AddMessageCall(p, sessionId, message, personality) ==
  /\ Len(getSession(sessions, sessionId).messages)
       + Cardinality({q \in Procs : /\ frame[q].op = "addMessageToSession"
                                    /\ frame[q].sessionId = sessionId}) < MaxMessages
  /\ SessionCall(p, "addMessageToSession", sessionId, NoSession.title, message, personality)

\* const session = await getSession(sessionId); if (!session) throw new Error('Session not
\* found'); then session.title = newTitle, or session.messages.push(message) and
\* if (personality) session.personality = personality
AwaitGetSession(p) ==
  /\ frame[p].op \in {"updateSessionTitle", "addMessageToSession"}
  /\ frame[p].pc = "getSession"
  /\ LET session == getSession(sessions, frame[p].sessionId)
     IN \/ frame' = [frame EXCEPT ![p].error = "storage", ![p].pc = "rejected"]
        \/ /\ session = NoSession
           /\ frame' = [frame EXCEPT ![p].error = "Session not found", ![p].pc = "rejected"]
        \/ /\ session # NoSession
           /\ frame' = [frame EXCEPT
                          ![p].session =
                            IF frame[p].op = "updateSessionTitle"
                            THEN [session EXCEPT !.title = frame[p].newTitle]
                            ELSE [session EXCEPT
                                    !.messages = Append(@, frame[p].message),
                                    !.personality = IF frame[p].personality # ""
                                                    THEN frame[p].personality ELSE @],
                          ![p].pc = "updateSession"]
  /\ UNCHANGED <<facts, clock, localStorage, stickers, detached, db, opened, relations, sessions>>

\* await updateSession(session)
AwaitUpdateSession(p) ==
  /\ frame[p].op \in {"updateSessionTitle", "addMessageToSession"}
  /\ frame[p].pc = "updateSession"
  /\ \/ /\ frame' = [frame EXCEPT ![p].error = "storage", ![p].pc = "rejected"]
        /\ UNCHANGED sessions
     \/ /\ sessions' = updateSession(sessions, frame[p].session, clock)
        /\ frame' = [frame EXCEPT ![p].pc = "returned"]
  /\ UNCHANGED <<facts, clock, localStorage, stickers, detached, db, opened, relations>>

\* the session list renames a chat while the chat appends to it, one call per process
NextSession ==
  \/ \E sessionId \in SessionIds : UpdateTitleCall("p1", sessionId, Renamed)
  \/ \E sessionId \in SessionIds :
       \/ AddMessageCall("p1", sessionId, Hello, "")
       \/ AddMessageCall("p2", sessionId, LongHello, "gentle")
  \/ \E p \in Procs : AwaitGetSession(p)
  \/ \E p \in Procs : AwaitUpdateSession(p)
  \/ \E p \in Procs : Settle(p)

\* two sessions created by earlier runs: one opened with a greeting, a newer one empty
InitSession ==
  /\ facts = <<>>
  /\ clock = 0
  /\ frame = [p \in Procs |-> IdleFrame]
  /\ localStorage = <<>>
  /\ stickers = <<>>
  /\ detached = <<>>
  /\ db = [m \in Modules |-> 0]
  /\ opened = [m \in Modules |-> 0]
  /\ relations = <<>>
  /\ sessions = createSession(createSession(<<>>, Welcome, 0 - 1), NoMessage, 0)

SpecSession == InitSession /\ [][NextSession]_vars

(* ------------------------------ the lists ------------------------------ *)

\* the relations in key order (oldest first), the sort left out
getAllRelations_KeyOrder(store) ==
  LET s == SortNewestFirst({store[k] : k \in DOMAIN store})
  IN [n \in 1..Len(s) |-> s[Len(s) + 1 - n]]

getAllRelations(store) == SortNewestFirst({store[k] : k \in DOMAIN store})

AddRelation(relation) ==
  /\ clock < MaxClock
  /\ relations' = addRelation(relations, relation, clock + 1)
  /\ clock' = clock + 1
  /\ UNCHANGED <<facts, frame, localStorage, stickers, detached, db, opened, sessions>>

ListOps == {"getAllMemoryFacts", "getShortTermMemories", "getLongTermMemories", "getAllRelations"}

ListCall(p, name) ==
  /\ frame[p].pc = "idle"
  /\ frame' = [frame EXCEPT ![p] = [IdleFrame EXCEPT !.op = name, !.pc = "getAll"]]
  /\ UNCHANGED <<facts, clock, localStorage, stickers, detached, db, opened, relations, sessions>>

\* request.onsuccess resolves with the sorted result, request.onerror rejects
ListGet(p) ==
  /\ frame[p].op \in ListOps
  /\ frame[p].pc = "getAll"
  /\ \/ frame' = [frame EXCEPT ![p].error = "storage", ![p].pc = "rejected"]
     \/ frame' = [frame EXCEPT
                    ![p].list = IF frame[p].op = "getAllMemoryFacts" THEN getAllMemoryFacts(facts)
                                ELSE IF frame[p].op = "getShortTermMemories"
                                THEN getShortTermMemories(facts)
                                ELSE IF frame[p].op = "getLongTermMemories"
                                THEN getLongTermMemories(facts)
                                ELSE getAllRelations(relations),
                    ![p].pc = "returned"]
  /\ UNCHANGED <<facts, clock, localStorage, stickers, detached, db, opened, relations, sessions>>

\* the reads of the memory panel, the store changing between them
NextList ==
  \/ \E name \in ListOps : ListCall("p1", name)
  \/ ListGet("p1")
  \/ Settle("p1")
  \/ \E fact \in {f \in UserFacts : f.fact = Leek} : AddMemoryFact(fact)
  \/ AddRelation(Likes)
  \/ \E factId \in DOMAIN facts : PromoteToLongTerm(factId)
  \/ \E factId \in DOMAIN facts : DeleteMemoryFact(factId)

SpecList == InitMutate /\ [][NextList]_vars

(* ------------------------- the lifecycle type -------------------------- *)

\* C1: once a stored fact's type is long_term it is never short_term in a
\* later state, whatever operation runs: the only transition is
\* short_term -> long_term.
C1_TypeNeverReverts ==
  [][\A k \in DOMAIN facts :
       (facts[k].type = "long_term" /\ k \in DOMAIN facts') => facts'[k].type = "long_term"]_vars

(* --------------------------- the dedup rule ---------------------------- *)

\* t occurs in s: s = pre . t . post for some pre of length k
OccursIn(t, s) ==
  \E k \in 0..Len(s) : k + Len(t) <= Len(s) /\ \A n \in 1..Len(t) : s[k + n] = t[n]

\* identical, or one contains the other and the lengths differ by at most 3
DupRule(a, b) ==
  \/ a = b
  \/ (OccursIn(a, b) \/ OccursIn(b, a)) /\ Len(a) - Len(b) \in (0 - 3)..3

DuplicateOfStored(c, store) == \E k \in DOMAIN store : DupRule(store[k].fact, c)

Recording(p) == frame[p].op = "recordConversationMemory"

\* C2: isDuplicateMemory(c) is true exactly when some stored fact, short-term
\* or long-term, is identical to c or is related to c by containment with a
\* length difference of at most 3.
C2_IsDuplicateExact ==
  \A p \in Procs :
    (/\ Recording(p)
     /\ \/ frame[p].pc = "addMemoryFact"
        \/ frame[p].pc = "returned" /\ frame[p].isDuplicate)
    => (frame[p].isDuplicate <=> DuplicateOfStored(frame[p].result.fact, facts))

\* the candidate "cai" is found a duplicate of the stored, promoted "tao yan xiang cai":
\* contained, the lengths 3 apart
C2_Witness ==
  \E p \in Procs :
    /\ Recording(p) /\ frame[p].pc = "returned" /\ frame[p].isDuplicate
    /\ frame[p].result.fact = Vegetable
    /\ DOMAIN facts # {}
    /\ \A k \in DOMAIN facts : facts[k].fact = HateCilantro /\ facts[k].type = "long_term"

\* C3: a candidate with non-empty text that is no duplicate of a stored fact
\* is never rejected: the call adds exactly one fact, with that text, type
\* short_term and source conversation, and changes no other fact.
C3_NonDuplicateRecorded ==
  \A p \in Procs :
    (/\ Recording(p) /\ frame[p].pc = "returned" /\ frame[p].error = "none"
     /\ frame[p].result.fact # <<>>
     /\ ~DuplicateOfStored(frame[p].result.fact, frame[p].entry))
    => LET added == DOMAIN facts \ DOMAIN frame[p].entry
       IN /\ Cardinality(added) = 1
          /\ \A k \in added :
               /\ facts[k].fact = frame[p].result.fact
               /\ facts[k].type = "short_term"
               /\ facts[k].source = "conversation"
          /\ \A k \in DOMAIN frame[p].entry : k \in DOMAIN facts /\ facts[k] = frame[p].entry[k]

\* the 13-unit text is recorded although the stored "xiang cai" occurs in it
C3_Witness ==
  \E p \in Procs :
    /\ Recording(p) /\ frame[p].pc = "returned" /\ frame[p].error = "none"
    /\ frame[p].result.fact = DislikesLeekAndCilantro
    /\ \E k \in DOMAIN frame[p].entry : frame[p].entry[k].fact = Cilantro
    /\ \E k \in DOMAIN facts \ DOMAIN frame[p].entry : facts[k].fact = DislikesLeekAndCilantro

\* C4: with recordings one at a time as the only source of facts, no two
\* stored facts are duplicates of each other, and a call whose candidate is
\* a duplicate leaves the store as it found it.
C4_NoDuplicatePairs ==
  /\ \A a, b \in DOMAIN facts : a # b => ~DupRule(facts[a].fact, facts[b].fact)
  /\ \A p \in Procs :
       (Recording(p) /\ frame[p].pc = "returned" /\ frame[p].isDuplicate)
       => facts = frame[p].entry

\* after "tao yan xiang cai" and the 13-unit text were accepted, "xiang cai" is rejected
C4_Witness ==
  \E p \in Procs :
    /\ Recording(p) /\ frame[p].pc = "returned" /\ frame[p].isDuplicate
    /\ frame[p].result.fact = Cilantro
    /\ {facts[k].fact : k \in DOMAIN facts} = {HateCilantro, DislikesLeekAndCilantro}

Listed(p) ==
  {frame[p].shortTermMemories[n].fact : n \in 1..Len(frame[p].shortTermMemories)}
    \cup {frame[p].longTermMemories[n].fact : n \in 1..Len(frame[p].longTermMemories)}

\* C5: two recordings of the same text whose duplicate reads both precede
\* either insert both conclude "not a duplicate" and both insert: two stored
\* facts then have that text.
C5_RaceInsertsTwice ==
  \A p, q \in Procs :
    (/\ p # q /\ Recording(p) /\ Recording(q)
     /\ frame[p].pc = "returned" /\ frame[q].pc = "returned"
     /\ frame[p].error = "none" /\ frame[q].error = "none"
     /\ frame[p].result.fact # <<>> /\ frame[p].result.fact = frame[q].result.fact
     /\ \A t \in Listed(p) \cup Listed(q) : ~DupRule(t, frame[p].result.fact))
    => /\ ~frame[p].isDuplicate /\ ~frame[q].isDuplicate
       /\ Cardinality({k \in DOMAIN facts : facts[k].fact = frame[p].result.fact}) >= 2

C5_Witness ==
  /\ \A p \in Procs :
       /\ Recording(p) /\ frame[p].pc = "returned" /\ frame[p].error = "none"
       /\ frame[p].result.fact = HateCilantro /\ ~frame[p].isDuplicate
       /\ Listed(p) = {}
  /\ Cardinality({k \in DOMAIN facts : facts[k].fact = HateCilantro}) = 2

(* ---------------------------- consolidation ---------------------------- *)

Consolidating(p) == frame[p].op = "organizeAndSummarizeLongTerm"

Ended(p) == frame[p].pc \in {"returned", "rejected"}

\* the long-term facts stored when the call started
LongTermAtEntry(p) == {k \in DOMAIN frame[p].entry : frame[p].entry[k].type = "long_term"}

AddedSince(p) == DOMAIN facts \ DOMAIN frame[p].entry

\* C6: once organizeAndSummarizeLongTerm has returned or failed, either every
\* long-term fact it started with is still stored and no summary was added,
\* or all of them are deleted and every produced summary is stored.
C6_AllOrNothing ==
  \A p \in Procs :
    (Consolidating(p) /\ Ended(p))
    => \/ LongTermAtEntry(p) \subseteq DOMAIN facts /\ AddedSince(p) = {}
       \/ /\ LongTermAtEntry(p) \cap DOMAIN facts = {}
          /\ Cardinality(AddedSince(p)) = Len(frame[p].summaries)
          /\ \A n \in 1..Len(frame[p].summaries) :
               \E k \in AddedSince(p) : facts[k].fact = frame[p].summaries[n]

\* C7: after a call that started with at least 8 long-term facts and got
\* k >= 1 summaries, the stored long-term facts are exactly the k new
\* summary facts, however many short-term facts there were.
C7_LongTermIsSummaries ==
  \A p \in Procs :
    (/\ Consolidating(p) /\ frame[p].pc = "returned"
     /\ Cardinality(LongTermAtEntry(p)) >= 8
     /\ frame[p].reply = "list" /\ frame[p].summarized >= 1)
    => /\ {k \in DOMAIN facts : facts[k].type = "long_term"} = AddedSince(p)
       /\ Cardinality(AddedSince(p)) = frame[p].summarized

\* C8: when the summarization oracle fails or returns no summary, no
\* long-term fact that existed before the call is deleted or modified and
\* no fact is added; the call returns with summarized = 0.
C8_FailedSummaryLeavesLongTerm ==
  \A p \in Procs :
    (Consolidating(p) /\ frame[p].reply \in {"failed", "empty"})
    => /\ \A k \in LongTermAtEntry(p) : k \in DOMAIN facts /\ facts[k] = frame[p].entry[k]
       /\ AddedSince(p) = {}
       /\ frame[p].pc = "returned" /\ frame[p].summarized = 0

\* the oracle fails on 8 or more long-term facts, after the call promoted some facts
C8_Witness ==
  \E p \in Procs :
    /\ Consolidating(p) /\ frame[p].reply = "failed" /\ frame[p].pc = "returned"
    /\ Len(frame[p].longTermMemories) >= 8
    /\ frame[p].promoted > 0

(* ------------------------------ promotion ------------------------------ *)

ListedIds(p) == {frame[p].shortTermMemories[n].id : n \in 1..Len(frame[p].shortTermMemories)}

FortyPercent(n) == CHOOSE j \in 0..n : 5 * j <= 2 * n /\ 5 * (j + 1) > 2 * n

NowOfType(p, type) ==
  {id \in ListedIds(p) : id \in DOMAIN facts /\ facts[id].type = type}

PromotedAreOldest(p) ==
  \A a \in NowOfType(p, "long_term"), b \in NowOfType(p, "short_term") :
    frame[p].entry[a].timestamp < frame[p].entry[b].timestamp

\* every listed fact that is long_term now was created after every listed fact that
\* is still short_term
PromotedAreNewest(p) ==
  \A a \in NowOfType(p, "long_term"), b \in NowOfType(p, "short_term") :
    frame[p].entry[a].timestamp > frame[p].entry[b].timestamp

FallbackReturned(p) ==
  /\ frame[p].op = "organizeMemories" /\ frame[p].pc = "returned"
  /\ frame[p].error = "oracle"

\* C11 as stated: the facts promoted by the organizeMemories fallback are the
\* first floor(0.4 N) short-term facts in insertion order, the earliest-created
\* ones.
C11_FallbackPromotesEarliest ==
  \A p \in Procs :
    FallbackReturned(p)
    => /\ Cardinality(NowOfType(p, "long_term")) = FortyPercent(Len(frame[p].shortTermMemories))
       /\ PromotedAreOldest(p)

\* C11 amended: the facts promoted by the organizeMemories fallback are the
\* first floor(0.4 N) entries of the list getShortTermMemories returned, which
\* is sorted by timestamp descending: the most recently created ones.
C11_FallbackPromotesNewest ==
  \A p \in Procs :
    FallbackReturned(p)
    => LET n == Len(frame[p].shortTermMemories)
       IN /\ NowOfType(p, "long_term") =
               {frame[p].shortTermMemories[i].id : i \in 1..FortyPercent(n)}
          /\ PromotedAreNewest(p)

\* 5 short-term facts and a failing oracle: the two newest are promoted
C11_Witness ==
  \E p \in Procs :
    /\ FallbackReturned(p)
    /\ Len(frame[p].shortTermMemories) = 5
    /\ NowOfType(p, "long_term") = {0, 0 - 1}
    /\ NowOfType(p, "short_term") = {0 - 2, 0 - 3, 0 - 4}


(* ----------------------------- importance ------------------------------ *)

\* C12: in every reachable state every stored fact's importance lies in
\* [0, 1] (0..10 in tenths), whatever importance the oracle returned for a
\* candidate and whatever value a caller passed.
C12_ImportanceInUnitRange ==
  \A k \in DOMAIN facts : facts[k].importance \in 0..10


(* -------------------------- the type partition ------------------------- *)

Range(s) == {s[n] : n \in 1..Len(s)}

\* C13: in every reachable state each stored fact has exactly one lifecycle
\* type, short_term or long_term, after any sequence of addMemoryFact,
\* updateMemoryFact, promoteToLongTerm and migrateFromLocalStorage; the facts
\* getAllMemoryFacts returns are the disjoint union of those returned by
\* getShortTermMemories and getLongTermMemories.
C13_TypePartition ==
  /\ \A k \in DOMAIN facts : facts[k].type \in {"short_term", "long_term"}
  /\ LET all == getAllMemoryFacts(facts)
         short == getShortTermMemories(facts)
         long == getLongTermMemories(facts)
     IN /\ Range(all) = Range(short) \cup Range(long)
        /\ Range(short) \cap Range(long) = {}
        /\ Len(all) = Len(short) + Len(long)

\* a migration has stored a legacy fact that had no type and one that was long_term
C13_Witness ==
  /\ \E p \in Procs :
       /\ frame[p].op = "migrateFromLocalStorage" /\ frame[p].pc = "returned"
       /\ frame[p].error = "none"
       /\ Len(frame[p].oldData) = 2
       /\ frame[p].oldData[1].type = ""
  /\ MemoryKey \notin DOMAIN localStorage
  /\ \E a, b \in DOMAIN facts :
       /\ facts[a].fact = HateCilantro /\ facts[a].type = "short_term"
       /\ facts[b].fact = Leek /\ facts[b].type = "long_term"


(* ---------------------------- cache lookups ---------------------------- *)

FindReturned(p) == frame[p].op = "findSimilarSticker" /\ frame[p].pc = "returned"

\* 100 * cos(query, embedding) >= threshold, cos = d / sqrt(n), squared
ReachesThreshold(detail, embedding, threshold) ==
  LET query == computeTextEmbedding(detail).counts
      d == Dot(query, embedding.counts)
      n == Dot(query, query) * Dot(embedding.counts, embedding.counts)
  IN threshold <= 0 \/ (n > 0 /\ (100 * d) * (100 * d) >= threshold * threshold * n)

\* C14: findSimilarSticker(category, descriptor, threshold) never returns an
\* artifact whose category differs from the requested one, and never
\* returns an artifact whose similarity to the query embedding is below
\* threshold.
C14_MatchInCategoryAboveThreshold ==
  \A p \in Procs :
    (FindReturned(p) /\ frame[p].bestMatch # NoSticker)
    => /\ frame[p].bestMatch.type = frame[p].args.type
       /\ ReachesThreshold(frame[p].args.detail, frame[p].bestMatch.embedding,
                           frame[p].args.threshold)

\* a lookup of ("meme", "ab", 0.7) returns the meme saved second, although the
\* hikari_emotion saved first has the same embedding
C14_Witness ==
  \E p \in Procs :
    /\ FindReturned(p)
    /\ frame[p].args.type = "meme" /\ frame[p].args.detail = Ab
    /\ frame[p].args.threshold = GenerateThreshold
    /\ frame[p].bestMatch.id = 2
    /\ 1 \in DOMAIN stickers
    /\ stickers[1].type = "hikari_emotion"
    /\ stickers[1].embedding = frame[p].bestMatch.embedding


\* cos(query, embedding) = 1: d = sqrt(n), squared
SelfMatch(detail, embedding) ==
  LET query == computeTextEmbedding(detail).counts
      d == Dot(query, embedding.counts)
      n == Dot(query, query) * Dot(embedding.counts, embedding.counts)
  IN n > 0 /\ d * d = n

\* C15: save/lookup round trip: while an artifact saved by saveSticker(prompt,
\* category, descriptor, payload) is stored, findSimilarSticker(category,
\* descriptor, 0.7) returns an artifact saved under that category and
\* descriptor, as a self-match with similarity 1.0, for every prompt and every
\* descriptor of at least two characters.
C15_SaveLookupRoundTrip ==
  \A p \in Procs :
    (/\ FindReturned(p)
     /\ frame[p].args.threshold = GenerateThreshold
     /\ Len(frame[p].args.detail) >= 2
     /\ \E k \in DOMAIN stickers :
          /\ stickers[k].type = frame[p].args.type
          /\ stickers[k].detail = frame[p].args.detail)
    => /\ frame[p].bestMatch # NoSticker
       /\ frame[p].bestMatch.type = frame[p].args.type
       /\ frame[p].bestMatch.detail = frame[p].args.detail
       /\ SelfMatch(frame[p].args.detail, frame[p].bestMatch.embedding)


\* C16: after any sequence of generateSticker calls, sequential or
\* overlapping, the cache holds at most one artifact per (type, detail)
\* pair.
C16_OneArtifactPerRequest ==
  \A a, b \in DOMAIN stickers :
    (stickers[a].type = stickers[b].type /\ stickers[a].detail = stickers[b].detail) => a = b


(* ---------------------------- usage counts ----------------------------- *)

\* C17: for every stored artifact, usageCount is 1 at creation and never
\* decreases in any later state, and no operation other than deletion
\* changes any other field (category, descriptor, payload, embedding,
\* createdAt) after creation.
C17_UsageCountOnlyGrows ==
  [][\A k \in DOMAIN stickers' :
       IF k \in DOMAIN stickers
       THEN /\ stickers'[k].usageCount >= stickers[k].usageCount
            /\ [stickers'[k] EXCEPT !.usageCount = 0] = [stickers[k] EXCEPT !.usageCount = 0]
       ELSE stickers'[k].usageCount = 1]_vars

\* an artifact has been returned by two lookups and both updates were written
C17_Witness ==
  \E k \in DOMAIN stickers :
    /\ stickers[k].usageCount = 3
    /\ \A n \in 1..Len(detached) : detached[n].id = k /\ detached[n].pc = "resolved"

\* C18: findSimilarSticker resolves with its match without waiting for the
\* usage-count write: when it resolves the write is dispatched and not yet
\* done; and nothing that happens to that write (a failed open, read or put
\* included) changes the returned match or rejects the caller's promise.
C18_LookupDoesNotAwaitUpdate ==
  [][\A p \in Procs :
       /\ (/\ frame[p].op = "findSimilarSticker" /\ frame[p].pc = "find.getAll"
           /\ frame'[p].pc = "returned" /\ frame'[p].bestMatch # NoSticker)
          => /\ stickers' = stickers
             /\ frame'[p].bestMatch = stickers[frame'[p].bestMatch.id]
             /\ detached' = Append(detached, UsageTask(frame'[p].bestMatch.id))
       /\ (FindReturned(p) /\ frame[p].bestMatch # NoSticker)
          => frame'[p] \in {frame[p], IdleFrame}]_vars

\* a lookup has resolved with its match and the update dispatched for it has failed
C18_Witness ==
  \E p \in Procs, n \in 1..Len(detached) :
    /\ FindReturned(p) /\ frame[p].bestMatch # NoSticker
    /\ n = Len(detached)
    /\ detached[n].id = frame[p].bestMatch.id
    /\ detached[n].error \in {"open", "read", "put"}
    /\ frame[p].bestMatch.id \in DOMAIN stickers
    /\ stickers[frame[p].bestMatch.id] = frame[p].bestMatch


(* --------------------------- storage failures -------------------------- *)

\* C19: a storage failure (a failed read, add, put or delete) during a core
\* operation is propagated to that operation's caller as a rejected promise,
\* also when it occurs inside recordConversationMemory.
C19_StorageFailureRejects ==
  \A p \in Procs : frame[p].error = "storage" => frame[p].pc = "rejected"

\* summarizeLongTermMemories has returned { summarized: 0 } to the consolidation
SummarizedNothing(p) ==
  /\ Consolidating(p) /\ frame[p].pc = "returned"
  /\ \/ frame[p].reply \in {"failed", "empty"}
     \/ frame[p].summarizeError = "storage"
  /\ frame[p].summarized = 0

\* C20: failures degrade to no state change with a distinguishable result:
\* whenever summarizeLongTermMemories returns summarized 0, no fact was
\* added to the store by that call.
C20_ZeroMeansNothingAdded ==
  \A p \in Procs : SummarizedNothing(p) => AddedSince(p) = {}


(* ------------------------- mutations of no fact ------------------------ *)

Mutating(p) == frame[p].op \in {"promoteToLongTerm", "updateMemoryFact"}

\* C21: promoteToLongTerm and updateMemoryFact on an id that is not in the
\* store are silent no-ops: the promise resolves, no record is created and
\* no stored fact changes; promoteToLongTerm on a fact that is already
\* long_term also changes nothing.
C21_MissingIdIsNoOp ==
  \A p \in Procs :
    (/\ Mutating(p) /\ frame[p].error = "none" /\ frame[p].pc # "idle"
     /\ \/ frame[p].factId \notin DOMAIN frame[p].entry
        \/ /\ frame[p].op = "promoteToLongTerm"
           /\ frame[p].entry[frame[p].factId].type = "long_term")
    => /\ frame[p].pc \in {"promote.get", "update.get", "returned"}
       /\ facts = frame[p].entry

\* an update of an id that is not stored has resolved, the store not empty
C21_Witness ==
  \E p \in Procs :
    /\ frame[p].op = "updateMemoryFact" /\ frame[p].pc = "returned"
    /\ frame[p].error = "none"
    /\ frame[p].factId \notin DOMAIN facts
    /\ frame[p].updates = [type |-> "long_term"]
    /\ DOMAIN facts # {}


(* -------------------------- recording turns ---------------------------- *)

Decided(p) == frame[p].op = "shouldRecordMemory" /\ frame[p].pc = "returned"

\* C22: shouldRecordMemory(n) returns true for every even turn count n
\* whatever the random draw, so of the calls for two consecutive turn counts
\* n and n + 1 at least one returns true.
C22_EvenTurnsRecord ==
  /\ \A p \in Procs :
       (Decided(p) /\ \E k \in 0..frame[p].conversationRounds :
                        frame[p].conversationRounds = 2 * k)
       => frame[p].should
  /\ \A p, q \in Procs :
       (/\ Decided(p) /\ Decided(q)
        /\ frame[q].conversationRounds = frame[p].conversationRounds + 1)
       => (frame[p].should \/ frame[q].should)

\* turn 4 records on the lowest draw, turn 5 on the same draw does not
C22_Witness ==
  \E p, q \in Procs :
    /\ Decided(p) /\ Decided(q)
    /\ frame[p].conversationRounds = 4 /\ frame[p].random = 0 /\ frame[p].should
    /\ frame[q].conversationRounds = 5 /\ frame[q].random = 0 /\ ~frame[q].should


(* --------------------------- batch extraction -------------------------- *)

Extracted(p) == frame[p].op = "extractMemoriesFromHistory" /\ frame[p].pc = "returned"

\* the facts the call has written so far: no other process runs during it
WrittenBy(p) == DOMAIN facts \ DOMAIN frame[p].entry

WithFact(memories) == {k \in DOMAIN memories : memories[k].fact # <<>>}

\* C23: every fact written by one extractMemoriesFromHistory call has type
\* long_term and source system, and a single call writes at most 5 facts,
\* whatever number of candidates the oracle returns.
C23_AtMostFiveLongTermSystem ==
  \A p \in Procs :
    frame[p].op = "extractMemoriesFromHistory"
    => /\ \A k \in WrittenBy(p) :
            facts[k].type = "long_term" /\ facts[k].source = "system"
       /\ Cardinality(WrittenBy(p)) <= ExtractCap

\* C24: extractMemoriesFromHistory performs no duplicate check: a call that
\* returns without a failure has written one fact for every candidate that has
\* a fact, also for a candidate whose text a stored fact already has.
C24_NoDuplicateCheck ==
  \A p \in Procs :
    (Extracted(p) /\ frame[p].error = "none")
    => /\ frame[p].count = Cardinality(WithFact(frame[p].memories))
       /\ Cardinality(WrittenBy(p)) = frame[p].count
       /\ \A k \in WithFact(frame[p].memories) :
            \E id \in WrittenBy(p) : facts[id].fact = frame[p].memories[k].fact

\* a call whose first candidate repeats a text stored by an earlier call and
\* whose second candidate repeats the first: three stored facts of one text
C24_Witness ==
  \E p \in Procs :
    /\ Extracted(p) /\ frame[p].error = "none"
    /\ Len(frame[p].memories) = 2
    /\ frame[p].memories[1].fact = HateCilantro
    /\ frame[p].memories[2].fact = HateCilantro
    /\ \E k \in DOMAIN frame[p].entry : frame[p].entry[k].fact = HateCilantro
    /\ Cardinality({k \in DOMAIN facts : facts[k].fact = HateCilantro}) = 3

Paired(p) == frame[p].op = "extractMemoriesFromHistory" /\ frame[p].pc # "idle"

IsUser(msg) == msg.role = "user" /\ msg.content # <<>>

IsReply(msg) == msg.role = "assistant" /\ msg.content # <<>> /\ msg.imageUrl = ""

\* the index of the next later assistant message with text and no picture
NextReply(messages, i) ==
  IF \E j \in (i + 1)..Len(messages) : IsReply(messages[j])
  THEN CHOOSE j \in (i + 1)..Len(messages) :
         IsReply(messages[j]) /\ \A k \in (i + 1)..(j - 1) : ~IsReply(messages[k])
  ELSE 0

\* C27: extractMemoriesFromHistory pairs every user message that has text with
\* the next later assistant message that has text and no picture, so u1, a1,
\* ..., un, an gives n pairs; no assistant message is used twice and none that
\* carries a picture is used.
C27_PairsEveryUserMessage ==
  \A p \in Procs :
    Paired(p)
    => LET messages == frame[p].messages
           pairs == frame[p].conversationPairs
       IN /\ \A i \in DOMAIN messages :
               (IsUser(messages[i]) /\ NextReply(messages, i) # 0)
               => \E k \in DOMAIN pairs :
                    /\ pairs[k].user = messages[i].content
                    /\ pairs[k].assistant = messages[NextReply(messages, i)].content
          /\ (\E n \in 1..Len(messages) : messages = Alternating(n))
               => 2 * Len(pairs) = Len(messages)
          /\ \A k, l \in DOMAIN pairs : pairs[k].assistant = pairs[l].assistant => k = l
          /\ \A k \in DOMAIN pairs, j \in DOMAIN messages :
               pairs[k].assistant = messages[j].content => messages[j].imageUrl = ""


(* ------------------------------ embeddings ----------------------------- *)

Embedded(p) == frame[p].op = "computeTextEmbedding" /\ frame[p].pc = "returned"

\* the sum of the components
Total(vector) == Dot(vector, [b \in DOMAIN vector |-> 1])

\* the component the gram at position i of the text is counted in
Bucket(text, i) ==
  hashString(<<toLowerCase(text)[i], toLowerCase(text)[i + 1]>>) % Dimensions

\* C25: for a text with at least one bigram computeTextEmbedding returns a
\* vector of 256 components of Euclidean norm 1 (the squares of the components
\* before the division sum to the square of the magnitude they are divided
\* by, which is positive); for a text without a bigram it returns the all-zero
\* vector; every bigram is counted once, in a component with index 0..255.
C25_UnitNormOrZero ==
  \A p \in Procs :
    Embedded(p)
    => LET text == frame[p].text
           e == frame[p].embedding
       IN /\ DOMAIN e.counts \subseteq 0..(Dimensions - 1)
          /\ Len(text) >= 2
               => /\ e.magnitude2 > 0
                  /\ Dot(e.counts, e.counts) = e.magnitude2
                  /\ Total(e.counts) = Len(text) - 1
                  /\ \A i \in 1..(Len(text) - 1) :
                       /\ Bucket(text, i) \in DOMAIN e.counts
                       /\ e.counts[Bucket(text, i)]
                            = Cardinality({j \in 1..(Len(text) - 1) :
                                             Bucket(text, j) = Bucket(text, i)})
          /\ Len(text) < 2 => e.counts = <<>>

\* "Aba" has the grams ab and ba, counted in two components; "a" has no gram
C25_Witness ==
  \E p, q \in Procs :
    /\ Embedded(p) /\ frame[p].text = <<65, 98, 97>>
    /\ Cardinality(DOMAIN frame[p].embedding.counts) = 2
    /\ frame[p].embedding.magnitude2 = 2
    /\ Embedded(q) /\ frame[q].text = <<97>>
    /\ frame[q].embedding.counts = <<>>


(* -------------------------- promotion comes first ---------------------- *)

LongTermNow == {k \in DOMAIN facts : facts[k].type = "long_term"}

\* C26: organizeAndSummarizeLongTerm runs promotion first: the list it is
\* about to summarize, and then deletes, is the long-term set after promotion,
\* and a call that returns without having asked for a summary leaves fewer
\* than 8 long-term facts.
C26_ThresholdAfterPromotion ==
  \A p \in Procs :
    Consolidating(p)
    => /\ frame[p].pc = "summarize.generateContent"
            => {frame[p].longTermMemories[n].id : n \in DOMAIN frame[p].longTermMemories}
                 = LongTermNow
       /\ (frame[p].pc = "returned" /\ frame[p].reply = "none")
            => Cardinality(LongTermNow) < SummarizeFloor


(* --------------------------- the best match ---------------------------- *)

\* the similarity the scan computes for a scanned artifact
SimilarityTo(p, sticker) ==
  cosineSimilarity(computeTextEmbedding(frame[p].args.detail), sticker.embedding)

Positive(s) == s.dot > 0

\* s > threshold and s = threshold, for a threshold >= 0 in hundredths
Above(s, threshold) == s.dot * s.dot * 10000 > threshold * threshold * s.mag

AtThreshold(s, threshold) ==
  Positive(s) /\ s.dot * s.dot * 10000 = threshold * threshold * s.mag

Matched(p) == FindReturned(p) /\ frame[p].error = "none" /\ frame[p].bestMatch # NoSticker

\* C28 as stated: a match returned by findSimilarSticker has similarity strictly
\* greater than the threshold.
C28_MatchAboveThreshold ==
  \A p \in Procs :
    Matched(p) => Above(SimilarityTo(p, frame[p].bestMatch), frame[p].args.threshold)

\* C28, amended: a match returned by findSimilarSticker has a positive similarity
\* that is greater than or equal to the threshold, and a lookup that scans an
\* artifact whose similarity equals the threshold returns a match.
C28_MatchAtLeastThreshold ==
  \A p \in Procs :
    /\ Matched(p)
         => /\ Positive(SimilarityTo(p, frame[p].bestMatch))
            /\ AtLeast(SimilarityTo(p, frame[p].bestMatch), frame[p].args.threshold)
    /\ (/\ FindReturned(p) /\ frame[p].error = "none"
        /\ \E n \in DOMAIN frame[p].stickers :
             AtThreshold(SimilarityTo(p, frame[p].stickers[n]), frame[p].args.threshold))
         => frame[p].bestMatch # NoSticker

\* the lookup of "ab" at 0.5 returns "ab cd", whose similarity is 0.5
C28_Witness ==
  \E p \in Procs :
    /\ Matched(p)
    /\ frame[p].args.detail = Ab /\ frame[p].args.threshold = 50
    /\ frame[p].bestMatch.prompt = Ab /\ frame[p].bestMatch.detail = Cd
    /\ AtThreshold(SimilarityTo(p, frame[p].bestMatch), frame[p].args.threshold)

\* C29: findSimilarSticker returns the single best match: no artifact of the
\* category has a strictly greater similarity than the returned one; and it
\* returns null only when no artifact of the category has a positive
\* similarity that reaches the threshold.
C29_BestMatchOrNone ==
  \A p \in Procs :
    (FindReturned(p) /\ frame[p].error = "none")
    => /\ \A n \in DOMAIN frame[p].stickers : frame[p].stickers[n].type = frame[p].args.type
       /\ frame[p].bestMatch # NoSticker
            => /\ \E n \in DOMAIN frame[p].stickers : frame[p].stickers[n] = frame[p].bestMatch
               /\ \A n \in DOMAIN frame[p].stickers :
                    ~Greater(SimilarityTo(p, frame[p].stickers[n]),
                             SimilarityTo(p, frame[p].bestMatch))
       /\ frame[p].bestMatch = NoSticker
            => \A n \in DOMAIN frame[p].stickers :
                 ~ /\ Positive(SimilarityTo(p, frame[p].stickers[n]))
                   /\ AtLeast(SimilarityTo(p, frame[p].stickers[n]), frame[p].args.threshold)

\* two artifacts of the category reach the threshold; the first scanned is the
\* better one and is returned
C29_Witness ==
  \E p \in Procs :
    /\ Matched(p)
    /\ Len(frame[p].stickers) = 2
    /\ frame[p].bestMatch = frame[p].stickers[1]
    /\ AtLeast(SimilarityTo(p, frame[p].stickers[2]), frame[p].args.threshold)
    /\ Greater(SimilarityTo(p, frame[p].stickers[1]), SimilarityTo(p, frame[p].stickers[2]))


(* ------------------------- the database handles ------------------------ *)

\* C30: each persistent handle is opened once per process lifetime:
\* indexedDB.open is invoked at most once for the fact store and at most once
\* for the sticker cache, also when several operations call initMemoryDB or
\* initDB before the first open has completed.
C30_OpenedAtMostOnce == \A m \in Modules : opened[m] <= 1


(* ------------------------------ list order ----------------------------- *)

Listing(p) == frame[p].op \in ListOps /\ frame[p].pc = "returned"

\* the records the operation of p is to return, from the stores as they are
Expected(p) ==
  IF frame[p].op = "getAllRelations" THEN {relations[k] : k \in DOMAIN relations}
  ELSE IF frame[p].op = "getAllMemoryFacts" THEN {facts[k] : k \in DOMAIN facts}
  ELSE {facts[k] : k \in {j \in DOMAIN facts :
                             facts[j].type = IF frame[p].op = "getShortTermMemories"
                                             THEN "short_term" ELSE "long_term"}}

\* C31: getShortTermMemories and getLongTermMemories return exactly the
\* stored facts of that lifecycle type, getAllMemoryFacts every stored fact
\* and getAllRelations every stored relation, each once and each list
\* ordered by timestamp with the newest first.  Stated as a step property:
\* the list a read resolves with is the one of the store it read.
C31_ListsNewestFirst ==
  [][\A p \in Procs :
       (frame[p].pc = "getAll" /\ frame'[p].pc = "returned")
       => LET list == frame'[p].list
          IN /\ Range(list) = Expected(p)
             /\ Len(list) = Cardinality(Expected(p))
             /\ \A n, k \in DOMAIN list : n < k => list[n].timestamp >= list[k].timestamp]_vars

\* a read of three facts of both types, the newest first, next to a stored relation
C31_Witness ==
  \E p \in Procs :
    /\ Listing(p) /\ frame[p].error = "none"
    /\ frame[p].op = "getAllMemoryFacts" /\ Len(frame[p].list) = 3
    /\ frame[p].list[1].timestamp > frame[p].list[2].timestamp
    /\ frame[p].list[2].type # frame[p].list[3].type
    /\ relations # <<>>


(* --------------------------- the promoted count ------------------------ *)

\* the facts whose stored type went from short_term to long_term since the call
PromotedSince(p) ==
  {k \in DOMAIN frame[p].entry \cap DOMAIN facts :
     frame[p].entry[k].type = "short_term" /\ facts[k].type = "long_term"}

\* C32: the promoted count returned by organizeMemories equals the number of
\* facts whose stored type changed from short_term to long_term during the
\* call, also for repeated or out-of-range keep indices and when a listed
\* fact is deleted or promoted while the oracle call is pending.
C32_PromotedCountIsExact ==
  \A p \in Procs :
    (frame[p].op = "organizeMemories" /\ frame[p].pc = "returned" /\ frame[p].error = "none")
    => frame[p].promoted = Cardinality(PromotedSince(p))


(* ------------------------- overlapping consolidation ------------------- *)

\* both calls have returned, each after adding its summaries and deleting the
\* long-term facts it had listed, and both had listed the store as it was
BothConsolidated ==
  \A p \in Procs :
    /\ frame[p].op = "organizeAndSummarizeLongTerm"
    /\ frame[p].pc = "returned"
    /\ frame[p].summarized > 0
    /\ Len(frame[p].longTermMemories) = SummarizeFloor

\* C33: when two organizeAndSummarizeLongTerm calls overlap, after both have
\* completed the long-term facts are the summaries of a single consolidation,
\* not the union of both calls' summaries.
C33_OverlapStillReplaces ==
  BothConsolidated
  => \E p \in Procs :
       Cardinality({k \in DOMAIN facts : facts[k].type = "long_term"}) = frame[p].summarized


(* --------------------------- counting the uses ------------------------- *)

\* the usage-count writes dispatched for artifact k
UsageTasksOf(k) ==
  {n \in 1..Len(detached) : detached[n].op = "updateUsageCount" /\ detached[n].id = k}

\* C34: no usage-count update is lost: when findSimilarSticker has returned
\* the same artifact k times, in any interleaving, the artifact has not been
\* deleted and no write has failed, then once all those writes have completed
\* its usageCount is 1 + k.
C34_NoUsageUpdateLost ==
  \A k \in DOMAIN stickers :
    (\A n \in UsageTasksOf(k) : detached[n].pc = "resolved" /\ detached[n].error = "none")
    => stickers[k].usageCount = 1 + Cardinality(UsageTasksOf(k))

\* two lookups returned the artifact and both writes went through
C34_Witness ==
  \E k \in DOMAIN stickers :
    /\ Cardinality(UsageTasksOf(k)) = 2
    /\ \A n \in UsageTasksOf(k) : detached[n].pc = "resolved" /\ detached[n].error = "none"
    /\ stickers[k].usageCount = 3


(* ------------------------ deleted stays deleted ------------------------ *)

\* C35: a deleted record is never re-created by a pending mutation: no step
\* puts a record back under an id that was in use before, in the fact store
\* or in the sticker cache, whatever promotion, update or usage-count write
\* was pending when the record was deleted or the cache cleared.
C35_DeletedStaysDeleted ==
  [][/\ \A k \in DOMAIN facts' \ DOMAIN facts : k > clock
     /\ \A k \in DOMAIN stickers' \ DOMAIN stickers : k > clock]_vars

\* a promotion has returned whose fact was deleted after the call was made, and a
\* usage-count write has resolved whose artifact was deleted after the lookup
C35_Witness ==
  /\ frame["p2"].op = "promoteToLongTerm"
  /\ frame["p2"].pc = "returned"
  /\ frame["p2"].factId \in DOMAIN frame["p2"].entry
  /\ frame["p2"].factId \notin DOMAIN facts
  /\ \E n \in 1..Len(detached) :
       /\ detached[n].pc = "resolved"
       /\ detached[n].error = "none"
       /\ detached[n].id \notin DOMAIN stickers


(* --------------------------- migrating again --------------------------- *)

\* the stored facts that are copies of the legacy fact: same text and source
CopiesOf(fact) ==
  {k \in DOMAIN facts : facts[k].fact = fact.fact /\ facts[k].source = fact.source}

\* the run found the legacy entry, and the entry held something
ReadLegacy(p) == frame[p].oldData # <<>> \/ frame[p].oldRelations # <<>>

\* C36: the migration stores nothing twice: after any number of
\* migrateFromLocalStorage runs, runs in which a store write fails part-way
\* included, each legacy fact and each legacy relation is in the store at most
\* once (and the legacy localStorage entry is removed only after all of them
\* were stored, RemovedOnlyAfterAllStored).
C36_MigratedAtMostOnce ==
  \A p \in Procs :
    (frame[p].op = "migrateFromLocalStorage" /\ ReadLegacy(p))
    => /\ \A n \in 1..Len(frame[p].oldData) :
            Cardinality(CopiesOf(Migrated(frame[p].oldData[n])))
              <= Cardinality({m \in 1..Len(frame[p].oldData) :
                                frame[p].oldData[m] = frame[p].oldData[n]})
       /\ Cardinality(DOMAIN relations) <= Len(frame[p].oldRelations)

\* the step that removes the legacy entry is the step of a migration that has added
\* every legacy fact and every legacy relation it read
RemovedOnlyAfterAllStored ==
  [][(MemoryKey \in DOMAIN localStorage /\ MemoryKey \notin DOMAIN localStorage')
     => \E p \in Procs :
          /\ frame'[p].op = "migrateFromLocalStorage"
          /\ frame'[p].pc = "returned"
          /\ frame'[p].error = "none"
          /\ Cardinality(DOMAIN facts' \ DOMAIN frame'[p].entry) = Len(frame'[p].oldData)
          /\ Cardinality(DOMAIN relations') >= Len(frame'[p].oldRelations)]_vars


(* ---------------------------- zero embeddings -------------------------- *)

\* every component of the stored embedding is 0
AllZero(embedding) == Dot(embedding.counts, embedding.counts) = 0

\* C37: findSimilarSticker with a descriptor shorter than two characters
\* returns null for every threshold, 0 and negative ones included, whatever
\* the cache holds; and an artifact whose stored embedding is all-zero is
\* never returned.
C37_ZeroVectorNeverMatches ==
  \A p \in Procs :
    FindReturned(p)
    => /\ Len(frame[p].args.detail) < 2 => frame[p].bestMatch = NoSticker
       /\ frame[p].bestMatch # NoSticker => ~AllZero(frame[p].bestMatch.embedding)

\* a lookup with a one-unit descriptor at a negative threshold has scanned an artifact
\* with an all-zero embedding and one with grams, and returned null
C37_Witness ==
  \E p \in Procs :
    /\ FindReturned(p)
    /\ frame[p].args.detail = OneUnit
    /\ frame[p].args.threshold < 0
    /\ frame[p].bestMatch = NoSticker
    /\ \E m, n \in 1..Len(frame[p].stickers) :
         /\ AllZero(frame[p].stickers[m].embedding)
         /\ ~AllZero(frame[p].stickers[n].embedding)


(* ------------------------------- sessions ------------------------------ *)

\* C38: after updateSessionTitle(id, t) completes on an existing session,
\* getSession(id) returns a session whose title is t, whether or not the
\* session has messages; on an id that is not stored the call fails with
\* 'Session not found' and creates no session.
C38_TitleIsTheNewTitle ==
  [][\A p \in Procs :
       (frame[p].op = "updateSessionTitle" /\ frame[p].pc # frame'[p].pc)
       => /\ frame'[p].pc = "returned"
             => getSession(sessions', frame[p].sessionId).title = frame[p].newTitle
          /\ (frame[p].pc = "getSession" /\ frame[p].sessionId \notin DOMAIN sessions)
             => /\ frame'[p].pc = "rejected"
                /\ sessions' = sessions]_vars

\* both calls appended to the messages as they were stored: both read before either wrote
ReadTheSame(p, q) ==
  /\ Len(frame[p].session.messages) = Len(frame[q].session.messages)
  /\ \A n \in 1..(Len(frame[p].session.messages) - 1) :
       frame[p].session.messages[n] = frame[q].session.messages[n]

\* C39: no appended message is lost: when two addMessageToSession calls for the
\* same session interleave, both reading before either writes, the stored
\* session contains both messages once both have returned.
C39_BothMessagesStored ==
  \A p, q \in Procs :
    (/\ p # q
     /\ frame[p].op = "addMessageToSession" /\ frame[p].pc = "returned"
     /\ frame[q].op = "addMessageToSession" /\ frame[q].pc = "returned"
     /\ frame[p].sessionId = frame[q].sessionId
     /\ ReadTheSame(p, q))
    => \A r \in {p, q} :
         \E n \in 1..Len(getSession(sessions, frame[r].sessionId).messages) :
           getSession(sessions, frame[r].sessionId).messages[n] = frame[r].message

====
